---- MODULE Spec2Model ----
(***************************************************************************)
(* Shared-display concurrency and animation engine of snowscraper:        *)
(* the serialized presenter (snowgui.present), the screen state machine   *)
(* (ScreenManager), the overlay compositor (SnowfallOverlay), the LED      *)
(* effect controller (SnowLEDs) and touch dispatch (Screen.handle_touch).  *)
(*                                                                         *)
(* Spec      : presenter + screen state machine + overlay worker           *)
(* SpecLED   : LED effect controller and its effect threads                *)
(* SpecTouch : hit-testing and callback dispatch of one touch              *)
(* SpecOverlay : SnowfallOverlay's API under arbitrary callers             *)
(* SpecLoop  : main()'s polling loop and its exception handlers            *)
(* SpecDim   : the LED effect controller with the shared dimmer            *)
(* SpecCalib : touch calibration, map_raw_to_screen                        *)
(* SpecStore : calibration file: load, load_safe, save_safe, guided flow   *)
(* SpecRead : read_touch: accepted readings, outlier band, mean            *)
(* SpecBright : the persisted brightness index and its toggle              *)
(* SpecProb : spawn probability of the sparkle loop                        *)
(* SpecLEDFair : SpecLED under a fair scheduler                            *)
(* SpecPeriod : _breath_period_for_delta                                   *)
(* SpecTable : trigger's density and speed tables                          *)
(* SpecPace : target frame rate of the overlay worker                      *)
(* SpecSentinel : the overlay worker's memory sentinel                     *)
(* SpecGuide : guided calibration: targets and release detection           *)
(* SpecLocks : display, overlay and LED lock under fair scheduling         *)
(* SpecSafe : the overlay behind the _SafeOverlay wrapper                  *)
(***************************************************************************)
EXTENDS Integers, Sequences, FiniteSets, TLC

VARIABLES
    \* ---- presenter / screen state machine / overlay (Spec) ----
    pc,          \* position of every thread
    stk,         \* per thread: labels to return to, innermost first
    target,      \* per thread: argument of the set_screen call in progress
    arg,         \* per thread: frame handed to present()
    device,      \* global display handle: "none" | "real" | "dummy"
    lockOwner,   \* holder of display_lock, or "none"
    lastWrite,   \* the last frame written to the physical display
    everFailed,  \* a device write has raised
    current,     \* ScreenManager.current
    allowed,     \* SnowfallOverlay._allowed
    running,     \* SnowfallOverlay._running
    density,     \* SnowfallOverlay._density
    speedMul,    \* SnowfallOverlay._speed_mul, in hundredths
    bound,       \* SnowfallOverlay._present is set
    base,        \* SnowfallOverlay._base: the screen whose draw cached it
    wsnap,       \* the base the worker copied at the top of its loop iteration
    wBaseStale,  \* update_base returned since the worker copied the base
    wcall,       \* _allowed at the moment the worker called present
    \* ---- LED effect controller (SpecLED) ----
    lpc,         \* position of the thread calling into SnowLEDs
    lcall,       \* the SnowLEDs operation in progress: "none" | "set" | "clear"
    lnow,        \* raw_now of the call in progress
    lprev,       \* raw_prev of the call in progress
    ledLock,     \* holder of SnowLEDs._lock, or "none"
    breathStop,  \* _breath_stop event
    breathThread,\* _breath_thread
    sparkleStop, \* _sparkle_stop event
    sparkleThread,\* _sparkle_thread
    epc,         \* position of every effect thread
    baseColor,   \* _base_color
    currentCm,   \* _current_cm
    prevCm,      \* _prev_cm
    stripOp,     \* the last write to the physical strip
    breathPeriod,\* period_sec of the breathing thread started last, in hundredths
    globalScale, \* _global_scale, in hundredths
    \* ---- touch dispatch (SpecTouch) ----
    tpc,         \* position of the dispatching thread
    buttons,     \* Screen.buttons of the screen the touch was dispatched to
    touch,       \* the touch point
    idx,         \* loop index of "for btn in self.buttons"
    fired,       \* indices of the buttons whose callback ran for this touch
    tcurrent,    \* ScreenManager.current during dispatch
    mode,        \* KeyboardScreen.mode
    shift,       \* KeyboardScreen.shift
    timer,       \* position of every Timer thread started by _toggle_mode
    raised,      \* callbacks of the touch in dispatch that raised
    everRaised,  \* some callback has raised
    \* ---- SnowfallOverlay under arbitrary callers (SpecOverlay) ----
    opc,         \* position of every thread calling into the overlay
    othr,        \* SnowfallOverlay._thr: a worker id, or NoWorker
    ostopEv,     \* SnowfallOverlay._stop_ev
    owk,         \* position of every overlay worker thread
    pool,        \* len(self._pool)
    flakes,      \* len(self._flakes)
    lastOp,      \* the last operation that set density (trigger with its argument,
                 \* on_exit, stop)
    swallowed,   \* a presenter call has raised inside a worker
    \* ---- main(): the polling loop and its handlers (SpecLoop) ----
    mpc,         \* position of the main thread in the loop iteration
    hasTouch,    \* the touch controller was opened
    coord,       \* read_touch returned a sample
    curSnow,     \* current_snow_cm
    prevSnow,    \* main._prev_snow_cm, NoPrev before the first update
    newSnow,     \* hill.newSnow
    due,         \* now_ts - last_fetch > FETCH_PERIOD
    logged,      \* handlers that have logged an exception
    failed,      \* an exception was raised in the current iteration
    refresh,     \* the metric block of this iteration: values and calls made
    \* ---- touch calibration (SpecCalib) ----
    cpc,         \* "boot" until the calibration was loaded, then "ready"
    calib,       \* TouchCalibrator: x_min, x_max, y_min, y_max
    rawPt,       \* the raw sample handed to map_raw_to_screen last
    mapped,      \* what map_raw_to_screen returned for it
    prevRaw,     \* the raw sample mapped before rawPt
    prevMapped,  \* what map_raw_to_screen returned for prevRaw
    \* ---- calibration file and guided calibration (SpecStore) ----
    fpc,         \* position of the thread using the calibrator
    cfile,       \* content of CALIBRATION_FILE on disk
    fop,         \* the calibrator operation in progress or finished last
    fret,        \* how it ended: "true" | "false" | "raised" | "none"
    fcaller,     \* who called save_safe: "api" | "calibration"
    samples,     \* run_touch_calibration: the accepted samples
    timedOut,    \* run_touch_calibration ended on a target's timeout
    afterSave,   \* the load_safe finished last directly followed a save_safe
                 \* that returned True
    calib0,      \* the calibrator's fields when the operation was called
    cfile0,      \* the file's content when the operation was called
    \* ---- XPT2046.read_touch (SpecRead) ----
    rpc,         \* position inside read_touch
    raws,        \* every (raw_x, raw_y) the controller delivered in this call
    readings,    \* read_touch's list of readings
    rout,        \* what read_touch returned, NoPoint for None
    \* ---- brightness profiles (SpecBright) ----
    bpc,         \* position of the main thread in boot / _toggle_brightness
    bindex,      \* brightness_state.index
    bscale,      \* brightness_state.scale, in hundredths
    bfile,       \* content of BRIGHTNESS_CONF_FILE: an index, NoIndex if absent
    dimUsed,     \* the scale present()'s dim transform applied last
    toggles,     \* brightness toggles finished
    persistOk,   \* the toggle's _write_brightness_index returned True
    bindex0,     \* brightness_state.index when the toggle began
    bfile0,      \* content of the file when the toggle began
    \* ---- sparkle spawn probability (SpecProb) ----
    spawnCm,     \* _current_cm read by the sparkle loop's iteration
    spawnProb,   \* spawn_prob of that iteration, in hundredths
    spawnCm0,    \* _current_cm read by the iteration before
    spawnProb0,  \* spawn_prob of the iteration before
    \* ---- breathing period (SpecPeriod) ----
    periodOf,    \* delta and result of the last _breath_period_for_delta call
    periodOf0,   \* delta and result of the call before
    \* ---- overlay tables (SpecTable) ----
    tableOf,     \* delta_cm, density and speed of the last trigger
    tableOf0,    \* delta_cm, density and speed of the trigger before
    \* ---- overlay frame pacing (SpecPace) ----
    paceOf,      \* cpu_pct and target_fps of the last worker iteration
    paceOf0,     \* cpu_pct and target_fps of the iteration before
    \* ---- overlay memory sentinel (SpecSentinel) ----
    lastRss,     \* SnowfallOverlay._last_rss, in MB
    elapsed,     \* seconds since _last_rss_check, 3 for any time above 2.0
    bufGen,      \* how many times the overlay and frame buffers were recreated
    chk,         \* the last sentinel check: rss read, _last_rss before, recreated?
    chk0,        \* the sentinel check before that one
    jumped,      \* rss grew by more than the threshold between two checks in a row
    \* ---- guided calibration and the finger (SpecGuide) ----
    gpc,         \* run_touch_calibration: "target" | "release" | "done" | "failed"
    gsamples,    \* samples accepted so far, one per target
    finger,      \* raw position of the finger on the panel, NoPoint when lifted
    contDown,    \* the finger has not been lifted since the last accepted sample
    releaseRead, \* a no-touch reading was obtained since the last accepted sample
    rejectedNear, \* a reading near the previous sample was skipped
    \* ---- the three locks and their users (SpecLocks) ----
    kop,         \* per thread: the operation in progress, "idle" between operations
    kstep,       \* per thread: which "with <lock>:" block of the operation it is at
    kphase,      \* per thread: "out" | "wait" (blocked on the lock) | "in"
    kheld,       \* per lock: the thread inside its "with" block, or "none"
    \* ---- the _SafeOverlay wrapper (SpecSafe) ----
    ofailed,     \* _SafeOverlay._failed
    owkAtFail    \* where every worker was when the wrapper disabled the overlay

ctlVars == <<pc, stk, target, arg>>
devVars == <<device, lockOwner, lastWrite, everFailed>>
ovVars == <<allowed, running, density, speedMul, bound, base>>
wVars == <<wsnap, wBaseStale, wcall>>
dispVars == <<ctlVars, devVars, current, ovVars, wVars>>
ledVars == <<lpc, lcall, lnow, lprev, ledLock, breathStop, breathThread,
             sparkleStop, sparkleThread, epc, baseColor, currentCm, prevCm,
             stripOp, breathPeriod, globalScale>>
touchVars == <<tpc, buttons, touch, idx, fired, tcurrent, mode, shift, timer,
               raised, everRaised>>
apiVars == <<opc, othr, ostopEv, owk, pool, flakes, lastOp, swallowed>>
loopVars == <<mpc, hasTouch, coord, curSnow, prevSnow, newSnow, due, logged,
              failed, refresh>>
calibVars == <<cpc, calib, rawPt, mapped, prevRaw, prevMapped>>
storeVars == <<fpc, cfile, fop, fret, fcaller, samples, timedOut, afterSave,
               calib0, cfile0>>
readVars == <<rpc, raws, readings, rout>>
brightVars == <<bpc, bindex, bscale, bfile, dimUsed, toggles, persistOk,
                bindex0, bfile0>>
probVars == <<spawnCm, spawnProb, spawnCm0, spawnProb0>>
periodVars == <<periodOf, periodOf0>>
tableVars == <<tableOf, tableOf0>>
paceVars == <<paceOf, paceOf0>>
sentVars == <<lastRss, elapsed, bufGen, chk, chk0, jumped>>
guideVars == <<gpc, gsamples, finger, contDown, releaseRead, rejectedNear>>
lockVars == <<kop, kstep, kphase, kheld>>
safeVars == <<ofailed, owkAtFail>>
lateVars == <<periodVars, tableVars, paceVars, sentVars, guideVars, lockVars,
             safeVars>>
vars == <<dispVars, ledVars, touchVars, apiVars, loopVars, calibVars, storeVars,
          readVars, brightVars, probVars, lateVars>>

\* the other components do not move
PeriodOthersSame ==
    UNCHANGED <<dispVars, ledVars, touchVars, apiVars, loopVars, calibVars,
                storeVars, readVars, brightVars, probVars, tableVars,
                paceVars, sentVars, guideVars, lockVars, safeVars>>
SafeOthersSame ==
    UNCHANGED <<dispVars, ledVars, touchVars, apiVars, loopVars, calibVars,
                storeVars, readVars, brightVars, probVars, periodVars,
                tableVars, paceVars, sentVars, guideVars, lockVars>>
LockOthersSame ==
    UNCHANGED <<dispVars, ledVars, touchVars, apiVars, loopVars, calibVars,
                storeVars, readVars, brightVars, probVars, periodVars,
                tableVars, paceVars, sentVars, guideVars, safeVars>>
GuideOthersSame ==
    UNCHANGED <<dispVars, ledVars, touchVars, apiVars, loopVars, calibVars,
                storeVars, readVars, brightVars, probVars, periodVars,
                tableVars, paceVars, sentVars, lockVars, safeVars>>
SentOthersSame ==
    UNCHANGED <<dispVars, ledVars, touchVars, apiVars, loopVars, calibVars,
                storeVars, readVars, brightVars, probVars, periodVars,
                tableVars, paceVars, guideVars, lockVars, safeVars>>
PaceOthersSame ==
    UNCHANGED <<dispVars, ledVars, touchVars, apiVars, loopVars, calibVars,
                storeVars, readVars, brightVars, probVars, periodVars,
                tableVars, sentVars, guideVars, lockVars, safeVars>>
TableOthersSame ==
    UNCHANGED <<dispVars, ledVars, touchVars, apiVars, loopVars, calibVars,
                storeVars, readVars, brightVars, probVars, periodVars,
                paceVars, sentVars, guideVars, lockVars, safeVars>>
LedTouchSame ==
    UNCHANGED <<ledVars, touchVars, apiVars, loopVars, calibVars, storeVars, readVars,
                brightVars, probVars, lateVars>>
DispTouchSame ==
    UNCHANGED <<dispVars, touchVars, apiVars, loopVars, calibVars, storeVars, readVars,
                brightVars, probVars, lateVars>>
DispLedSame ==
    UNCHANGED <<dispVars, ledVars, apiVars, loopVars, calibVars, storeVars, readVars,
                brightVars, probVars, lateVars>>

Max(a, b) == IF a > b THEN a ELSE b
Min(a, b) == IF a < b THEN a ELSE b

(***************************************************************************)
(* Presenter, screen state machine, overlay compositor                     *)
(***************************************************************************)
Threads == {"main", "worker", "pd"}

Screens == {"Menu", "Report", "Config", "Splash", "Drive"}

\* Screens whose draw() hands its frame to overlay.update_base before present.
UpdatesBase == {"Report", "Config", "Drive"}

\* the density table with two neighbours exchanged
_DENSITY_swapped == <<20, 35, 55, 95, 75, 115, 130, 145, 155, 165>>

\* Map delta(cm) 1..10 -> flake count and speed multiplier (hundredths)
_DENSITY == <<20, 35, 55, 75, 95, 115, 130, 145, 155, 165>>
_SPEED == <<100, 105, 110, 115, 122, 130, 140, 155, 175, 215>>

\* Snowfall deltas the main loop hands to trigger (current - prev > 0).
Deltas == {12}

\* a frame: the screen it was drawn from; ov: the snow layer is pasted on it
NoFrame == [src |-> "none", ov |-> FALSE]
ScreenFrame(s) == [src |-> s, ov |-> FALSE]
NoWrite == [via |-> "none", src |-> "none", ov |-> FALSE, stale |-> FALSE]

DispInit ==
    /\ pc = [t \in Threads |-> CASE t = "main" -> "b_init"
                                 [] t = "worker" -> "off"
                                 [] OTHER -> "idle"]
    /\ stk = [t \in Threads |-> <<>>]
    /\ target = [t \in Threads |-> "none"]
    /\ arg = [t \in Threads |-> NoFrame]
    /\ device = "none"
    /\ lockOwner = "none"
    /\ lastWrite = NoWrite
    /\ everFailed = FALSE
    /\ current = "none"
    /\ allowed = FALSE
    /\ running = FALSE
    /\ density = 0
    /\ speedMul = 100
    /\ bound = FALSE
    /\ base = "none"
    /\ wsnap = "none"
    /\ wBaseStale = FALSE
    /\ wcall = "none"

\* thread t returns from its innermost call
Return(t) ==
    /\ pc' = [pc EXCEPT ![t] = Head(stk[t])]
    /\ stk' = [stk EXCEPT ![t] = Tail(stk[t])]

\* _start_if_needed: the worker thread is created on first use
StartIfNeeded(p) == IF p["worker"] = "off" THEN [p EXCEPT !["worker"] = "w_top"] ELSE p

(* ---------------- present(img), snowgui.py ---------------- *)

\* entering the section without waiting for the lock
PAcquireUnguarded(t) ==
    /\ pc[t] = "p_acq"
    /\ lockOwner' = t
    /\ pc' = [pc EXCEPT ![t] = "p_write"]
    /\ UNCHANGED <<stk, target, arg, device, lastWrite, everFailed, current, ovVars, wVars>>
    /\ LedTouchSame

\* "with display_lock:" -- an RLock: free, or already held by the caller
PAcquire(t) ==
    /\ pc[t] = "p_acq"
    /\ lockOwner \in {"none", t}
    /\ lockOwner' = t
    /\ pc' = [pc EXCEPT ![t] = "p_write"]
    /\ UNCHANGED <<stk, target, arg, device, lastWrite, everFailed, current, ovVars, wVars>>
    /\ LedTouchSame

\* what the panel shows after thread t wrote its frame
Written(t) == [via |-> "present", src |-> arg[t].src, ov |-> arg[t].ov,
               stale |-> (t = "worker" /\ wBaseStale)]

\* the worker's per-iteration copies are dropped when its present call returns
WorkerDone(t) ==
    IF t = "worker"
      THEN wsnap' = "none" /\ wBaseStale' = FALSE /\ wcall' = "none"
      ELSE UNCHANGED wVars

\* a device write that raises and is not handled: the exception reaches the caller
PWriteRaises(t) ==
    /\ pc[t] = "p_write"
    /\ \/ /\ device = "real"
          /\ lastWrite' = Written(t)
          /\ Return(t)
          /\ UNCHANGED <<device, everFailed>>
       \/ /\ device = "real"
          /\ everFailed' = TRUE
          /\ pc' = [pc EXCEPT ![t] = "raised"]
          /\ UNCHANGED <<device, lastWrite, stk>>
       \/ /\ device = "dummy"
          /\ Return(t)
          /\ UNCHANGED <<device, lastWrite, everFailed>>
    /\ lockOwner' = "none"
    /\ arg' = [arg EXCEPT ![t] = NoFrame]
    /\ WorkerDone(t)
    /\ UNCHANGED <<target, current, ovVars>>
    /\ LedTouchSame

\* convert + dim + device.display(img) inside the lock, then leave the lock.
\* A write to the real device either succeeds or raises; on a raise present logs,
\* swaps in _DummyDevice, writes to it (a no-op) and returns normally.
PWrite(t) ==
    /\ pc[t] = "p_write"
    /\ \/ /\ device = "real"
          /\ lastWrite' = Written(t)
          /\ UNCHANGED <<device, everFailed>>
       \/ /\ device = "real"
          /\ device' = "dummy"
          /\ everFailed' = TRUE
          /\ UNCHANGED lastWrite
       \/ /\ device = "dummy"
          /\ UNCHANGED <<device, lastWrite, everFailed>>
    /\ lockOwner' = "none"
    /\ arg' = [arg EXCEPT ![t] = NoFrame]
    /\ Return(t)
    /\ WorkerDone(t)
    /\ UNCHANGED <<target, current, ovVars>>
    /\ LedTouchSame

(* ---------------- ScreenManager.set_screen / redraw ---------------- *)

\* set_screen without the exit notification
SsCheckNoExit(t) ==
    /\ pc[t] = "ss_check"
    /\ pc' = [pc EXCEPT ![t] = "ss_swap"]
    /\ UNCHANGED <<stk, target, arg, devVars, current, ovVars, wVars>>
    /\ LedTouchSame

\* "if isinstance(self.current, SnowReportScreen)": decide on the exit notification
SsCheck(t) ==
    /\ pc[t] = "ss_check"
    /\ pc' = [pc EXCEPT ![t] = IF current = "Report" THEN "ss_exit" ELSE "ss_swap"]
    /\ UNCHANGED <<stk, target, arg, devVars, current, ovVars, wVars>>
    /\ LedTouchSame

\* overlay.on_exit(): under the overlay lock
OnExit(t) ==
    /\ pc[t] = "ss_exit"
    /\ allowed' = FALSE
    /\ running' = FALSE
    /\ density' = 0
    /\ pc' = [pc EXCEPT ![t] = "ss_swap"]
    /\ UNCHANGED <<stk, target, arg, devVars, current, speedMul, bound, base, wVars>>
    /\ LedTouchSame

\* "self.current = screen"
SsSwap(t) ==
    /\ pc[t] = "ss_swap"
    /\ current' = target[t]
    /\ pc' = [pc EXCEPT ![t] = IF target[t] = "Report" THEN "ss_enter" ELSE "rd_draw"]
    /\ target' = [target EXCEPT ![t] = "none"]
    /\ UNCHANGED <<stk, arg, devVars, ovVars, wVars>>
    /\ LedTouchSame

\* overlay.on_enter(present): bind the presenter, allow, start the worker if needed
OnEnter(t) ==
    /\ pc[t] = "ss_enter"
    /\ bound' = TRUE
    /\ allowed' = TRUE
    /\ pc' = StartIfNeeded([pc EXCEPT ![t] = "rd_draw"])
    /\ UNCHANGED <<stk, target, arg, devVars, current, running, density, speedMul,
                   base, wVars>>
    /\ LedTouchSame

\* redraw() -> current.draw(): build the frame of the screen that is current now,
\* hand it to overlay.update_base (screens in UpdatesBase), then call present
RdDraw(t) ==
    /\ pc[t] = "rd_draw"
    /\ IF current = "none"
         THEN /\ Return(t)
              /\ UNCHANGED <<arg, base, wBaseStale>>
         ELSE /\ arg' = [arg EXCEPT ![t] = ScreenFrame(current)]
              /\ pc' = [pc EXCEPT ![t] = "p_acq"]
              /\ IF current \in UpdatesBase
                   THEN /\ base' = current
                        /\ wBaseStale' = (wBaseStale \/ wsnap # "none")
                   ELSE UNCHANGED <<base, wBaseStale>>
              /\ UNCHANGED stk
    /\ UNCHANGED <<target, devVars, current, allowed, running, density, speedMul,
                   bound, wsnap, wcall>>
    /\ LedTouchSame

(* ---------------- SnowfallOverlay._loop ---------------- *)

\* top of the loop: copy the shared fields under the overlay lock; idle (sleep and
\* retry) unless allowed, running, a presenter is bound and a base frame exists
WSnapshot ==
    /\ pc["worker"] = "w_top"
    /\ IF allowed /\ running /\ bound /\ base # "none"
         THEN /\ wsnap' = base
              /\ pc' = [pc EXCEPT !["worker"] = "w_compose"]
         ELSE UNCHANGED <<wsnap, pc>>
    /\ UNCHANGED <<stk, target, arg, devVars, current, ovVars, wBaseStale, wcall>>
    /\ LedTouchSame

\* pace, then under the overlay lock: move the flakes, paste the copied base and
\* the snow layer into the frame buffer
WCompose ==
    /\ pc["worker"] = "w_compose"
    /\ arg' = [arg EXCEPT !["worker"] = [src |-> wsnap, ov |-> TRUE]]
    /\ pc' = [pc EXCEPT !["worker"] = "w_call"]
    /\ UNCHANGED <<stk, target, devVars, current, ovVars, wVars>>
    /\ LedTouchSame

\* "present(to_present)", outside the overlay lock; afterwards back to the top
WCall ==
    /\ pc["worker"] = "w_call"
    /\ wcall' = IF allowed THEN "allowed" ELSE "exited"
    /\ pc' = [pc EXCEPT !["worker"] = "p_acq"]
    /\ stk' = [stk EXCEPT !["worker"] = <<"w_top">>]
    /\ UNCHANGED <<target, arg, devVars, current, ovVars, wsnap, wBaseStale>>
    /\ LedTouchSame

(* ---------------- main(): boot ---------------- *)

\* init_display(): the panel driver, or _DummyDevice when it cannot be opened
InitDisplay ==
    /\ pc["main"] = "b_init"
    /\ device' \in {"real", "dummy"}
    /\ pc' = [pc EXCEPT !["main"] = "b_splash"]
    /\ UNCHANGED <<stk, target, arg, lockOwner, lastWrite, everFailed, current,
                   ovVars, wVars>>
    /\ LedTouchSame

\* the boot splash: "device.display(splash)", or skipped when the image is missing
BootSplash ==
    /\ pc["main"] = "b_splash"
    /\ \/ /\ device = "real"
          /\ lastWrite' = [via |-> "direct", src |-> "BootSplash", ov |-> FALSE,
                           stale |-> FALSE]
       \/ UNCHANGED lastWrite
    /\ pc' = [pc EXCEPT !["main"] = "b_calib"]
    /\ UNCHANGED <<stk, target, arg, device, lockOwner, everFailed, current, ovVars,
                   wVars>>
    /\ LedTouchSame

\* calibration: loaded from file, or the guided flow draws a target through present
BootCalib ==
    /\ pc["main"] = "b_calib"
    /\ \/ /\ pc' = [pc EXCEPT !["main"] = "b_start"]
          /\ UNCHANGED <<arg, stk>>
       \/ /\ arg' = [arg EXCEPT !["main"] = ScreenFrame("Calib")]
          /\ pc' = [pc EXCEPT !["main"] = "p_acq"]
          /\ stk' = [stk EXCEPT !["main"] = <<"b_start">>]
    /\ UNCHANGED <<target, devVars, current, ovVars, wVars>>
    /\ LedTouchSame

\* screen_manager.set_screen(MainMenuScreen(...)), then the polling loop
BootStart ==
    /\ pc["main"] = "b_start"
    /\ target' = [target EXCEPT !["main"] = "Menu"]
    /\ pc' = [pc EXCEPT !["main"] = "ss_check"]
    /\ stk' = [stk EXCEPT !["main"] = <<"loop">>]
    /\ UNCHANGED <<arg, devVars, current, ovVars, wVars>>
    /\ LedTouchSame

(* ---------------- main(): polling loop ---------------- *)

\* screens a button of screen s switches to
ButtonTargets(s) ==
    CASE s = "Menu" -> {"Report", "Config", "Splash"}
      [] s = "Report" -> {"Menu", "Report"}
      [] s = "Config" -> {"Menu"}
      [] s = "Drive" -> {"Menu"}
      [] OTHER -> {}

\* a touch on a button whose callback calls set_screen(s); ScreenManager.handle_touch
\* redraws once more after the callback. Constructing PowderDriveSplashScreen starts
\* its _fetch_and_transition thread.
TouchButton ==
    /\ pc["main"] = "loop"
    /\ \E s \in ButtonTargets(current) :
          /\ s = "Splash" => pc["pd"] = "idle"
          /\ target' = [target EXCEPT !["main"] = s]
          /\ pc' = [pc EXCEPT !["main"] = "ss_check",
                              !["pd"] = IF s = "Splash" THEN "pd_run" ELSE @]
    /\ stk' = [stk EXCEPT !["main"] = <<"rd_draw", "loop">>]
    /\ UNCHANGED <<arg, devVars, current, ovVars, wVars>>
    /\ LedTouchSame

\* a touch that hits no button: handle_touch only redraws
TouchMiss ==
    /\ pc["main"] = "loop"
    /\ pc' = [pc EXCEPT !["main"] = "rd_draw"]
    /\ stk' = [stk EXCEPT !["main"] = <<"loop">>]
    /\ UNCHANGED <<target, arg, devVars, current, ovVars, wVars>>
    /\ LedTouchSame

\* the periodic metric refresh: redraw, then react to the new value
Fetch ==
    /\ pc["main"] = "loop"
    /\ pc' = [pc EXCEPT !["main"] = "rd_draw"]
    /\ stk' = [stk EXCEPT !["main"] = <<"fetch_metric">>]
    /\ UNCHANGED <<target, arg, devVars, current, ovVars, wVars>>
    /\ LedTouchSame

\* overlay.trigger(delta_cm)
Trigger(delta) ==
    LET d == Max(1, Min(10, delta)) IN
    /\ density' = _DENSITY[d]
    /\ speedMul' = _SPEED[d]
    /\ running' = TRUE
    /\ pc' = StartIfNeeded([pc EXCEPT !["main"] = "loop"])

\* overlay.stop()
Stop ==
    /\ running' = FALSE
    /\ density' = 0
    /\ pc' = [pc EXCEPT !["main"] = "loop"]
    /\ UNCHANGED speedMul

\* value unchanged / increased (trigger) / decreased (stop)
FetchMetric ==
    /\ pc["main"] = "fetch_metric"
    /\ \/ /\ pc' = [pc EXCEPT !["main"] = "loop"]
          /\ UNCHANGED <<running, density, speedMul>>
       \/ \E delta \in Deltas : Trigger(delta)
       \/ Stop
    /\ UNCHANGED <<stk, target, arg, devVars, current, allowed, bound, base, wVars>>
    /\ LedTouchSame

(* ---------------- PowderDriveSplashScreen._fetch_and_transition ---------------- *)

\* after the requests: set_screen(PowderDriveScreen(...)); the thread then ends
PdTransition ==
    /\ pc["pd"] = "pd_run"
    /\ target' = [target EXCEPT !["pd"] = "Drive"]
    /\ pc' = [pc EXCEPT !["pd"] = "ss_check"]
    /\ stk' = [stk EXCEPT !["pd"] = <<"idle">>]
    /\ UNCHANGED <<arg, devVars, current, ovVars, wVars>>
    /\ LedTouchSame

(***************************************************************************)
(* LED effect controller                                                   *)
(***************************************************************************)
\* effect threads the model can have alive at once, per kind
MaxBreath == 2
MaxSparkle == 1

LNone == <<"none", 0>>
LMain == <<"main", 0>>
BreathIds == {<<"breathe", i>> : i \in 1..MaxBreath}
SparkleIds == {<<"sparkle", i>> : i \in 1..MaxSparkle}
EffectIds == BreathIds \cup SparkleIds

\* metric values handed to set_snow_value
LedValues == {0, 18, 22}

\* _lerp_rgb(a, b, t) with t = n/d in [0,1]: int() of a non-negative sum
_lerp_rgb(a, b, n, d) ==
    [i \in 1..3 |-> (a[i] * d + (b[i] - a[i]) * n) \div d]

light_blue == <<168, 216, 255>>
deep_blue == <<0, 72, 255>>
purple == <<128, 0, 255>>
dark_red == <<139, 0, 0>>
bright_red == <<255, 0, 0>>

\* _color_for_cm: four linear ramps over 1..20
_color_for_cm(cm0) ==
    LET cm == Max(1, Min(20, cm0)) IN
    IF cm <= 5 THEN _lerp_rgb(light_blue, deep_blue, cm - 1, 4)
    ELSE IF cm <= 10 THEN _lerp_rgb(deep_blue, purple, cm - 5, 5)
    ELSE IF cm <= 15 THEN _lerp_rgb(purple, dark_red, cm - 10, 5)
    ELSE _lerp_rgb(dark_red, bright_red, cm - 15, 5)

Abs(n) == IF n < 0 THEN -n ELSE n

\* _breath_period_for_delta with the slope applied to delta itself
_breath_period_no_offset(delta) ==
    Max(150, 800 - Max(1, Min(10, delta)) * 73)

\* _breath_period_for_delta, in hundredths of a second:
\* max(1.5, 8.0 - (clamp(delta, 1, 10) - 1) * 0.73)
_breath_period_for_delta(delta) ==
    Max(150, 800 - (Max(1, Min(10, delta)) - 1) * 73)

Alive(e) == e # LNone /\ epc[e] # "dead"
\* brightness levels of the shared dimmer: Full and Dim, in hundredths
ScaleLevels == {100, 35}
_steady_brightness == 35
\* brightness values a breathing thread paints with: low and high of its wave
BreathLevels == {18, 85}
black == <<0, 0, 0>>
white == <<255, 255, 255>>

\* _paint_solid's arithmetic: clamp brightness * _global_scale to [0, 1],
\* int() of every channel times it
\* _paint_solid without the multiplication by _global_scale
_paint_rgb_unscaled(rgb, brightness) ==
    LET b == Max(0, Min(10000, brightness * 100))
    IN  [i \in 1..3 |-> (rgb[i] * b) \div 10000]

_paint_rgb(rgb, brightness) ==
    LET b == Max(0, Min(10000, brightness * globalScale))
    IN  [i \in 1..3 |-> (rgb[i] * b) \div 10000]

Peak(rgb) == Max(rgb[1], Max(rgb[2], rgb[3]))

\* the values _base_color takes; a breathing thread paints the one it read
\* when its loop started
BaseColors == {black} \cup {_color_for_cm(Min(20, cm)) : cm \in LedValues \ {0}}

\* brightness of a repaint that is not the breathing wave
RepaintBrightness == IF breathThread = LNone THEN _steady_brightness ELSE 50

NoStripOp == [by |-> LNone, locked |-> TRUE, over |-> FALSE, after |-> FALSE]
\* a write of pixels and show() by thread e: was _lock held by e, is a channel
\* written above 255 * _global_scale, and had every set_global_brightness
\* returned?
StripWrite(e, rgb) ==
    [by |-> e, locked |-> ledLock' = e,
     over |-> Peak(rgb) * 100 > 255 * globalScale, after |-> lcall # "dim"]

LedInit ==
    /\ lpc = "boot"
    /\ lcall = "none"
    /\ lnow = 0
    /\ lprev = 0
    /\ ledLock = LNone
    /\ breathStop = FALSE
    /\ breathThread = LNone
    /\ sparkleStop = FALSE
    /\ sparkleThread = LNone
    /\ epc = [e \in EffectIds |-> "dead"]
    /\ baseColor = <<0, 0, 0>>
    /\ currentCm = 0
    /\ prevCm = 0
    /\ stripOp = NoStripOp
    /\ breathPeriod = 0
    /\ globalScale = 100

(* ---------------- rainbow_fade_in / clear ---------------- *)

\* rainbow_fade_in: _set_pixel for every pixel and strip.show(), then clear();
\* the wheel's colours at full fade reach 255 in a channel, as bright_red does
RainbowFadeIn ==
    /\ lpc = "boot"
    /\ ledLock' = ledLock
    /\ stripOp' = StripWrite(LMain, bright_red)
    /\ lcall' = "clear"
    /\ lpc' = "stop_breathe"
    /\ UNCHANGED <<lnow, lprev, breathStop, breathThread, sparkleStop,
                   sparkleThread, epc, baseColor, currentCm, prevCm, breathPeriod, globalScale>>
    /\ DispTouchSame

\* the splash image is missing: main() skips the rainbow
RainbowSkipped ==
    /\ lpc = "boot"
    /\ lpc' = "idle"
    /\ UNCHANGED <<lcall, lnow, lprev, ledLock, breathStop, breathThread,
                   sparkleStop, sparkleThread, epc, baseColor, currentCm,
                   prevCm, stripOp, breathPeriod, globalScale>>
    /\ DispTouchSame

\* clear(), after both effects were stopped: black pixels and show()
ClearWrite ==
    /\ lpc = "clear_write"
    /\ ledLock' = ledLock
    /\ stripOp' = StripWrite(LMain, black)
    /\ lcall' = "none"
    /\ lpc' = "idle"
    /\ UNCHANGED <<lnow, lprev, breathStop, breathThread, sparkleStop,
                   sparkleThread, epc, baseColor, currentCm, prevCm, breathPeriod, globalScale>>
    /\ DispTouchSame

(* ---------------- set_snow_value ---------------- *)

\* set_snow_value deciding sparkle and breathing from the clamped values
SetSnowValueClamped(now, prev) ==
    /\ lpc = "idle"
    /\ ledLock = LNone
    /\ lcall' = "set"
    /\ lnow' = Max(0, Min(20, now))
    /\ lprev' = Max(0, Min(20, prev))
    /\ currentCm' = now
    /\ prevCm' = prev
    /\ baseColor' = IF now > 0 THEN _color_for_cm(Max(0, Min(20, now)))
                    ELSE <<0, 0, 0>>
    /\ lpc' = IF Max(0, Min(20, now)) > 20 THEN "start_sparkle" ELSE "stop_sparkle"
    /\ UNCHANGED <<ledLock, breathStop, breathThread, sparkleStop,
                   sparkleThread, epc, stripOp, breathPeriod, globalScale>>
    /\ DispTouchSame

\* "with self._lock:" store the raw values and the base colour
SetSnowValue(now, prev) ==
    /\ lpc = "idle"
    /\ ledLock = LNone
    /\ lcall' = "set"
    /\ lnow' = now
    /\ lprev' = prev
    /\ currentCm' = now
    /\ prevCm' = prev
    /\ baseColor' = IF now > 0 THEN _color_for_cm(Max(0, Min(20, now)))
                    ELSE <<0, 0, 0>>
    /\ lpc' = IF now > 20 THEN "start_sparkle" ELSE "stop_sparkle"
    /\ UNCHANGED <<ledLock, breathStop, breathThread, sparkleStop,
                   sparkleThread, epc, stripOp, breathPeriod, globalScale>>
    /\ DispTouchSame

\* where the caller continues once the sparkle worker is started / stopped
AfterSparkle == IF lcall = "clear" THEN "clear_write" ELSE "stop_breathe"

\* where the caller continues once _stop_breathe returned
AfterBreathe ==
    IF lcall = "clear" THEN "stop_sparkle"
    ELSE IF lnow > 0 /\ lnow # lprev THEN "spawn_breathe"
    ELSE "paint"

\* _start_sparkle: keep a live worker, else clear the flag and start one
StartSparkle ==
    /\ lpc = "start_sparkle"
    /\ IF Alive(sparkleThread)
       THEN UNCHANGED <<sparkleStop, sparkleThread, epc>>
       ELSE /\ \E s \in SparkleIds : epc[s] = "dead"
            /\ LET s == CHOOSE s \in SparkleIds : epc[s] = "dead" IN
               /\ sparkleStop' = FALSE
               /\ sparkleThread' = s
               /\ epc' = [epc EXCEPT ![s] = "loop"]
    /\ lpc' = AfterSparkle
    /\ UNCHANGED <<lcall, lnow, lprev, ledLock, breathStop, breathThread,
                   baseColor, currentCm, prevCm, stripOp, breathPeriod, globalScale>>
    /\ DispTouchSame

\* _stop_sparkle: set the flag; join only a live worker
StopSparkle ==
    /\ lpc = "stop_sparkle"
    /\ sparkleStop' = TRUE
    /\ IF Alive(sparkleThread)
       THEN lpc' = "join_sparkle" /\ UNCHANGED sparkleThread
       ELSE lpc' = AfterSparkle /\ sparkleThread' = LNone
    /\ UNCHANGED <<lcall, lnow, lprev, ledLock, breathStop, breathThread, epc,
                   baseColor, currentCm, prevCm, stripOp, breathPeriod, globalScale>>
    /\ DispTouchSame

\* t.join(timeout=0.6) returns because the sparkle worker ended
SparkleJoined ==
    /\ lpc = "join_sparkle"
    /\ ~Alive(sparkleThread)
    /\ sparkleThread' = LNone
    /\ lpc' = AfterSparkle
    /\ UNCHANGED <<lcall, lnow, lprev, ledLock, breathStop, breathThread,
                   sparkleStop, epc, baseColor, currentCm, prevCm, stripOp, breathPeriod, globalScale>>
    /\ DispTouchSame

\* t.join(timeout=0.6) returns because the timeout expired: the worker is abandoned
SparkleJoinTimeout ==
    /\ lpc = "join_sparkle"
    /\ Alive(sparkleThread)
    /\ sparkleThread' = LNone
    /\ lpc' = AfterSparkle
    /\ UNCHANGED <<lcall, lnow, lprev, ledLock, breathStop, breathThread,
                   sparkleStop, epc, baseColor, currentCm, prevCm, stripOp, breathPeriod, globalScale>>
    /\ DispTouchSame

\* _stop_breathe: set the flag; join only a live worker
StopBreathe ==
    /\ lpc = "stop_breathe"
    /\ breathStop' = TRUE
    /\ IF Alive(breathThread)
       THEN lpc' = "join_breathe" /\ UNCHANGED breathThread
       ELSE lpc' = AfterBreathe /\ breathThread' = LNone
    /\ breathPeriod' = 0
    /\ UNCHANGED <<lcall, lnow, lprev, ledLock, sparkleStop, sparkleThread, epc,
                   baseColor, currentCm, prevCm, stripOp, globalScale>>
    /\ DispTouchSame

\* t.join(timeout=0.6) returns because the breathing worker ended
BreatheJoined ==
    /\ lpc = "join_breathe"
    /\ ~Alive(breathThread)
    /\ breathThread' = LNone
    /\ lpc' = AfterBreathe
    /\ UNCHANGED <<lcall, lnow, lprev, ledLock, breathStop, sparkleStop,
                   sparkleThread, epc, baseColor, currentCm, prevCm, stripOp, breathPeriod, globalScale>>
    /\ DispTouchSame

\* t.join(timeout=0.6) returns because the timeout expired: the worker is abandoned
BreatheJoinTimeout ==
    /\ lpc = "join_breathe"
    /\ Alive(breathThread)
    /\ breathThread' = LNone
    /\ lpc' = AfterBreathe
    /\ UNCHANGED <<lcall, lnow, lprev, ledLock, breathStop, sparkleStop,
                   sparkleThread, epc, baseColor, currentCm, prevCm, stripOp, breathPeriod, globalScale>>
    /\ DispTouchSame

\* _start_breathe after its _stop_breathe: clear the flag, start a new worker
StartBreathe ==
    /\ lpc = "spawn_breathe"
    /\ \E b \in BreathIds : epc[b] = "dead"
    /\ LET b == CHOOSE b \in BreathIds : epc[b] = "dead" IN
       /\ breathThread' = b
       /\ epc' = [epc EXCEPT ![b] = "loop"]
    /\ breathStop' = FALSE
    /\ breathPeriod' = _breath_period_for_delta(Abs(lnow - lprev))
    /\ lpc' = "idle"
    /\ lcall' = "none"
    /\ lnow' = 0
    /\ lprev' = 0
    /\ UNCHANGED <<ledLock, sparkleStop, sparkleThread, baseColor, currentCm,
                   prevCm, stripOp, globalScale>>
    /\ DispTouchSame

(* ---------------- set_global_brightness ---------------- *)

\* set_global_brightness: clamp and store the scale, then repaint
SetGlobalBrightness(scale) ==
    /\ lpc = "idle"
    /\ lcall' = "dim"
    /\ globalScale' = Max(5, Min(100, scale))
    /\ stripOp' = [stripOp EXCEPT !.after = FALSE]
    /\ lpc' = "paint"
    /\ UNCHANGED <<lnow, lprev, ledLock, breathStop, breathThread, sparkleStop,
                   sparkleThread, epc, baseColor, currentCm, prevCm,
                   breathPeriod>>
    /\ DispTouchSame

(* ---------------- _paint_solid ---------------- *)

\* the caller's _paint_solid (off or steady): take _lock, set every pixel, show()
PaintSolid ==
    /\ lpc = "paint"
    /\ ledLock = LNone
    /\ ledLock' = LMain
    /\ stripOp' = StripWrite(LMain,
                   IF lcall = "dim" THEN _paint_rgb(baseColor, RepaintBrightness)
                   ELSE IF lnow <= 0 THEN _paint_rgb(black, 0)
                   ELSE _paint_rgb(baseColor, _steady_brightness))
    /\ lpc' = "painted"
    /\ UNCHANGED <<lcall, lnow, lprev, breathStop, breathThread, sparkleStop,
                   sparkleThread, epc, baseColor, currentCm, prevCm, breathPeriod, globalScale>>
    /\ DispTouchSame

\* leaving "with self._lock:"; set_snow_value returns
PaintDone ==
    /\ lpc = "painted"
    /\ ledLock' = LNone
    /\ lpc' = "idle"
    /\ lcall' = "none"
    /\ lnow' = 0
    /\ lprev' = 0
    /\ UNCHANGED <<breathStop, breathThread, sparkleStop, sparkleThread, epc,
                   baseColor, currentCm, prevCm, stripOp, breathPeriod, globalScale>>
    /\ DispTouchSame

(* ---------------- _breathe_loop / _sparkle_loop ---------------- *)

ledCallerVars == <<lpc, lcall, lnow, lprev, breathStop, breathThread,
                   sparkleStop, sparkleThread, baseColor, currentCm, prevCm,
                   breathPeriod, globalScale>>

\* "while not self._breath_stop.is_set()"
BreatheCheck(b) ==
    /\ epc[b] = "loop"
    /\ epc' = [epc EXCEPT ![b] = IF breathStop THEN "dead" ELSE "paint"]
    /\ UNCHANGED <<ledCallerVars, ledLock, stripOp>>
    /\ DispTouchSame

\* "while not self._sparkle_stop.is_set()"
SparkleCheck(s) ==
    /\ epc[s] = "loop"
    /\ epc' = [epc EXCEPT ![s] = IF sparkleStop THEN "dead" ELSE "paint"]
    /\ UNCHANGED <<ledCallerVars, ledLock, stripOp>>
    /\ DispTouchSame

\* an effect thread's _paint_solid: take _lock, set every pixel, show()
EffectPaint(e) ==
    /\ epc[e] = "paint"
    /\ ledLock = LNone
    /\ ledLock' = e
    /\ IF e \in BreathIds
       THEN \E base0 \in BaseColors, brightness \in BreathLevels :
               stripOp' = StripWrite(e, _paint_rgb(base0, brightness))
       ELSE stripOp' = StripWrite(e, _paint_rgb(baseColor, RepaintBrightness))
    /\ epc' = [epc EXCEPT ![e] = "painted"]
    /\ UNCHANGED ledCallerVars
    /\ DispTouchSame

\* leaving "with self._lock:"; breathing sleeps and loops, sparkle goes on to flash
EffectPaintDone(e) ==
    /\ epc[e] = "painted"
    /\ ledLock' = LNone
    /\ epc' = [epc EXCEPT ![e] = IF e \in BreathIds THEN "loop" ELSE "flash"]
    /\ UNCHANGED <<ledCallerVars, stripOp>>
    /\ DispTouchSame

\* _sparkle_loop after its _paint_solid: white pixels via _set_pixel where the
\* random draw says so, then strip.show() of the pixel buffer
SparkleFlash(s) ==
    /\ epc[s] = "flash"
    /\ ledLock' = ledLock
    /\ \E flashed \in BOOLEAN :
          stripOp' = IF flashed THEN StripWrite(s, white)
                     ELSE [stripOp EXCEPT !.by = s, !.locked = (ledLock' = s)]
    /\ epc' = [epc EXCEPT ![s] = "loop"]
    /\ UNCHANGED ledCallerVars
    /\ DispTouchSame

(***************************************************************************)
(* Touch dispatch                                                          *)
(***************************************************************************)
\* Timer threads of KeyboardScreen._toggle_mode the model can have at once
MaxTimers == 3

\* touch points fed to ScreenManager.handle_touch: the Q/1 key, its right edge,
\* the Z/- key, [123]/[ABC], [CAP]/[LWR], Enter, and a point on no button
TouchPoints == {<<24, 74>>, <<38, 74>>, <<24, 138>>, <<30, 175>>, <<90, 175>>,
                <<290, 175>>, <<5, 5>>}

\* Button(x1, y1, x2, y2, label, callback); label case follows self.shift
Button(x1, y1, x2, y2, label, upper, callback) ==
    [x1 |-> x1, y1 |-> y1, x2 |-> x2, y2 |-> y2, label |-> label,
     upper |-> upper, callback |-> callback]

\* Button.contains: both ends inclusive
contains(btn, x, y) ==
    btn.x1 <= x /\ x <= btn.x2 /\ btn.y1 <= y /\ y <= btn.y2

\* rows of KeyboardScreen._build_keys
KeyRows(m) ==
    IF m = "letters"
    THEN << <<"Q", "W", "E", "R", "T", "Y", "U", "I", "O", "P">>,
            <<"A", "S", "D", "F", "G", "H", "J", "K", "L">>,
            <<"Z", "X", "C", "V", "B", "N", "M">> >>
    ELSE << <<"1", "2", "3", "4", "5", "6", "7", "8", "9", "0">>,
            <<"!", "@", "#", "$", "%", "^", "&", "*", "(", ")">>,
            <<"-", "_", "=", "+", ".", ",", "?", "/">> >>

x_start == 10
y_start == 60
key_w == 28
key_h == 28
spacing == 4

KeyRow(m, sh, r) ==
    LET row == KeyRows(m)[r] IN
    [c \in 1..Len(row) |->
        LET x == x_start + (c - 1) * (key_w + spacing)
            y == y_start + (r - 1) * (key_h + spacing)
        IN Button(x, y, x + key_w, y + key_h, row[c], sh, "append_char")]

\* the buttons _build_keys appends after self.buttons.clear(), in order
_build_keys(m, sh) ==
    KeyRow(m, sh, 1) \o KeyRow(m, sh, 2) \o KeyRow(m, sh, 3) \o
    << Button(10, 160, 65, 190, IF m = "letters" THEN "[123]" ELSE "[ABC]",
              sh, "toggle_mode"),
       Button(70, 160, 125, 190, IF sh THEN "[LWR]" ELSE "[CAP]", sh,
              "toggle_shift"),
       Button(130, 160, 220, 190, "Space", sh, "append_char"),
       Button(225, 160, 270, 190, "DEL", sh, "backspace"),
       Button(275, 160, 310, 190, "Enter", sh, "submit") >>

TimerIds == 1..MaxTimers
TimersLive == {i \in TimerIds : timer[i] # "none"}

TouchInit ==
    /\ tpc = "idle"
    /\ buttons = <<>>
    /\ touch = <<0, 0>>
    /\ idx = 0
    /\ fired = <<>>
    /\ tcurrent = "Previous"
    /\ mode = "letters"
    /\ shift = FALSE
    /\ timer = [i \in TimerIds |-> "none"]
    /\ raised = 0
    /\ everRaised = FALSE

\* the config screen opens the keyboard: set_screen(KeyboardScreen(...)); a new
\* screen object starts in letters mode with a freshly built button list
OpenKeyboard ==
    /\ tpc = "idle"
    /\ tcurrent = "Previous"
    /\ TimersLive = {}
    /\ tcurrent' = "Keyboard"
    /\ mode' = "letters"
    /\ shift' = FALSE
    /\ buttons' = _build_keys("letters", FALSE)
    /\ UNCHANGED <<tpc, touch, idx, fired, timer, raised, everRaised>>
    /\ DispLedSame

\* ScreenManager.handle_touch(x, y): current.handle_touch starts its loop
HandleTouch(p) ==
    /\ tpc = "idle"
    /\ tcurrent = "Keyboard"
    /\ Cardinality(TimersLive) <= 1
    /\ touch' = p
    /\ idx' = 1
    /\ fired' = <<>>
    /\ tpc' = "iter"
    /\ UNCHANGED <<buttons, tcurrent, mode, shift, timer, raised, everRaised>>
    /\ DispLedSame

\* the loop has a next button and it contains the point
Hit(cb) ==
    /\ tpc = "iter"
    /\ idx <= Len(buttons)
    /\ contains(buttons[idx], touch[1], touch[2])
    /\ buttons[idx].callback = cb

\* "if btn.contains(x, y)" is false: next button
IterMiss ==
    /\ tpc = "iter"
    /\ idx <= Len(buttons)
    /\ ~contains(buttons[idx], touch[1], touch[2])
    /\ idx' = idx + 1
    /\ UNCHANGED <<tpc, buttons, touch, fired, tcurrent, mode, shift, timer, raised, everRaised>>
    /\ DispLedSame

\* on_press of a character key, Space or DEL: edits input_text only
PressKey ==
    /\ Hit("append_char") \/ Hit("backspace")
    /\ fired' = Append(fired, buttons[idx].label)
    /\ idx' = idx + 1
    /\ UNCHANGED <<tpc, buttons, touch, tcurrent, mode, shift, timer, raised, everRaised>>
    /\ DispLedSame

\* on_press of [123]/[ABC]: _toggle_mode starts threading.Timer(0.1, delayed_rebuild)
PressToggleMode ==
    /\ Hit("toggle_mode")
    /\ \E i \in TimerIds : timer[i] = "none"
    /\ LET i == CHOOSE i \in TimerIds : timer[i] = "none" IN
       timer' = [timer EXCEPT ![i] = "armed"]
    /\ fired' = Append(fired, buttons[idx].label)
    /\ idx' = idx + 1
    /\ UNCHANGED <<tpc, buttons, touch, tcurrent, mode, shift, raised, everRaised>>
    /\ DispLedSame

\* on_press of [CAP]/[LWR]: _toggle_shift flips shift and enters _build_keys,
\* which begins with self.buttons.clear()
PressToggleShift ==
    /\ Hit("toggle_shift")
    /\ fired' = Append(fired, buttons[idx].label)
    /\ shift' = ~shift
    /\ buttons' = <<>>
    /\ idx' = idx + 1
    /\ tpc' = "build"
    /\ UNCHANGED <<touch, tcurrent, mode, timer, raised, everRaised>>
    /\ DispLedSame

\* _build_keys on the dispatching thread: append the keys for the mode and shift
\* read now; the callback returns into the loop
MainBuild ==
    /\ tpc = "build"
    /\ buttons' = buttons \o _build_keys(mode, shift)
    /\ tpc' = "iter"
    /\ UNCHANGED <<touch, idx, fired, tcurrent, mode, shift, timer, raised, everRaised>>
    /\ DispLedSame

\* on_press of Enter: _submit calls set_screen(previous_screen); the loop goes on
PressSubmit ==
    /\ Hit("submit")
    /\ fired' = Append(fired, buttons[idx].label)
    /\ tcurrent' = "Previous"
    /\ idx' = idx + 1
    /\ UNCHANGED <<tpc, buttons, touch, mode, shift, timer, raised, everRaised>>
    /\ DispLedSame

\* a callback whose exception is not caught by handle_touch
PressRaisesEscapes ==
    /\ \E cb \in {"append_char", "backspace", "toggle_mode", "toggle_shift",
                   "submit"} : Hit(cb)
    /\ fired' = Append(fired, buttons[idx].label)
    /\ raised' = raised + 1
    /\ everRaised' = TRUE
    /\ tpc' = "crashed"
    /\ UNCHANGED <<buttons, touch, idx, tcurrent, mode, shift, timer>>
    /\ DispLedSame

\* btn.on_press() raises before the callback changed anything: "except Exception"
\* logs it and the for loop goes on with the next button
PressRaises ==
    /\ \E cb \in {"append_char", "backspace", "toggle_mode", "toggle_shift",
                   "submit"} : Hit(cb)
    /\ fired' = Append(fired, buttons[idx].label)
    /\ raised' = raised + 1
    /\ everRaised' = TRUE
    /\ idx' = idx + 1
    /\ UNCHANGED <<tpc, buttons, touch, tcurrent, mode, shift, timer>>
    /\ DispLedSame

\* the list iterator is exhausted: handle_touch returns and ScreenManager redraws;
\* the 0.1 s of the Timers armed by this touch run out while the frame is written
IterEnd ==
    /\ tpc = "iter"
    /\ idx > Len(buttons)
    /\ tpc' = "idle"
    /\ touch' = <<0, 0>>
    /\ idx' = 0
    /\ fired' = <<>>
    /\ timer' = [i \in TimerIds |-> IF timer[i] = "armed" THEN "pending"
                                                          ELSE timer[i]]
    /\ raised' = 0
    /\ UNCHANGED <<buttons, tcurrent, mode, shift, everRaised>>
    /\ DispLedSame

\* delayed_rebuild on a Timer thread: flip the mode, enter _build_keys (clear)
TimerClear(i) ==
    /\ timer[i] = "pending"
    /\ mode' = IF mode = "letters" THEN "symbols" ELSE "letters"
    /\ buttons' = <<>>
    /\ timer' = [timer EXCEPT ![i] = "build"]
    /\ UNCHANGED <<tpc, touch, idx, fired, tcurrent, shift, raised, everRaised>>
    /\ DispLedSame

\* the Timer thread's _build_keys appends the keys, redraws, and the thread ends
TimerBuild(i) ==
    /\ timer[i] = "build"
    /\ buttons' = buttons \o _build_keys(mode, shift)
    /\ timer' = [timer EXCEPT ![i] = "none"]
    /\ UNCHANGED <<tpc, touch, idx, fired, tcurrent, mode, shift, raised, everRaised>>
    /\ DispLedSame

(***************************************************************************)
(* SnowfallOverlay as a component: its public operations called in any     *)
(* order by two threads, and the worker threads it starts                  *)
(***************************************************************************)
\* overlay worker threads the model can have alive at once
MaxWorkers == 2

POOL_PAD == 16

Clients == {"ui", "bg"}
WorkerIds == 1..MaxWorkers
NoWorker == 0

\* delta_cm values handed to trigger
TriggerDeltas == {-1, 0, 1, 7, 10, 12}

NoOp == [op |-> "none", delta |-> 0]

ApiInit ==
    /\ opc = [c \in Clients |-> "idle"]
    /\ othr = NoWorker
    /\ ostopEv = FALSE
    /\ owk = [w \in WorkerIds |-> "dead"]
    /\ pool = 0
    /\ flakes = 0
    /\ lastOp = NoOp
    /\ swallowed = FALSE

\* nothing outside the overlay object moves
ApiOthersSame ==
    UNCHANGED <<ctlVars, devVars, current, wVars, ledVars, touchVars, loopVars,
                calibVars, storeVars, readVars, brightVars, probVars, lateVars>>

\* _thr is set and is_alive()
WorkerAlive == othr # NoWorker /\ owk[othr] # "dead"

\* on_enter(present), the part under _lock; _start_if_needed follows
ApiOnEnter(c) ==
    /\ opc[c] = "idle"
    /\ bound' = TRUE
    /\ allowed' = TRUE
    /\ opc' = [opc EXCEPT ![c] = "start_check"]
    /\ UNCHANGED <<running, density, speedMul, base, othr, ostopEv, owk, pool,
                   flakes, lastOp, swallowed>>
    /\ ApiOthersSame

\* on_exit()
ApiOnExit(c) ==
    /\ opc[c] = "idle"
    /\ allowed' = FALSE
    /\ running' = FALSE
    /\ density' = 0
    /\ lastOp' = [op |-> "on_exit", delta |-> 0]
    /\ UNCHANGED <<bound, speedMul, base, opc, othr, ostopEv, owk, pool, flakes,
                   swallowed>>
    /\ ApiOthersSame

\* update_base(img) with the report screen's frame
ApiUpdateBase(c) ==
    /\ opc[c] = "idle"
    /\ base' = "Report"
    /\ UNCHANGED <<allowed, running, density, speedMul, bound, opc, othr,
                   ostopEv, owk, pool, flakes, lastOp, swallowed>>
    /\ ApiOthersSame

\* "delta = max(1, min(10, int(delta_cm)))" with the upper limit one too low
ClampDeltaNine(delta_cm) == Max(1, Min(9, delta_cm))

\* "delta = max(1, min(10, int(delta_cm)))"
ClampDelta(delta_cm) == Max(1, Min(10, delta_cm))

\* trigger(delta_cm), the part under _lock: table lookup, _ensure_flake_pool,
\* _seed_flakes (self._flakes = self._pool[:n]), running; _start_if_needed follows
ApiTrigger(c, delta_cm) ==
    /\ opc[c] = "idle"
    /\ LET delta == ClampDelta(delta_cm)
           want == _DENSITY[delta] + POOL_PAD
           grown == Max(pool, want)
       IN /\ density' = _DENSITY[delta]
          /\ speedMul' = _SPEED[delta]
          /\ pool' = grown
          /\ flakes' = Min(_DENSITY[delta], grown)
    /\ running' = TRUE
    /\ lastOp' = [op |-> "trigger", delta |-> delta_cm]
    /\ opc' = [opc EXCEPT ![c] = "start_check"]
    /\ UNCHANGED <<allowed, bound, base, othr, ostopEv, owk, swallowed>>
    /\ ApiOthersSame

\* stop()
ApiStop(c) ==
    /\ opc[c] = "idle"
    /\ running' = FALSE
    /\ density' = 0
    /\ lastOp' = [op |-> "stop", delta |-> 0]
    /\ UNCHANGED <<allowed, speedMul, bound, base, opc, othr, ostopEv, owk,
                   pool, flakes, swallowed>>
    /\ ApiOthersSame

\* _start_if_needed: "if self._thr and self._thr.is_alive(): return"
StartCheck(c) ==
    /\ opc[c] = "start_check"
    /\ opc' = [opc EXCEPT ![c] = IF WorkerAlive THEN "idle" ELSE "start"]
    /\ UNCHANGED <<ovVars, othr, ostopEv, owk, pool, flakes, lastOp, swallowed>>
    /\ ApiOthersSame

\* _start_if_needed: clear the stop event, create the thread, start it
StartWorker(c) ==
    /\ opc[c] = "start"
    /\ \E w \in WorkerIds : owk[w] = "dead"
    /\ LET w == CHOOSE w \in WorkerIds : owk[w] = "dead" IN
       /\ othr' = w
       /\ owk' = [owk EXCEPT ![w] = "top"]
    /\ ostopEv' = FALSE
    /\ opc' = [opc EXCEPT ![c] = "idle"]
    /\ UNCHANGED <<ovVars, pool, flakes, lastOp, swallowed>>
    /\ ApiOthersSame

\* shutdown(): set the stop event; join only a live worker
ApiShutdown(c) ==
    /\ opc[c] = "idle"
    /\ ostopEv' = TRUE
    /\ IF WorkerAlive
       THEN opc' = [opc EXCEPT ![c] = "join"] /\ UNCHANGED othr
       ELSE othr' = NoWorker /\ UNCHANGED opc
    /\ UNCHANGED <<ovVars, owk, pool, flakes, lastOp, swallowed>>
    /\ ApiOthersSame

\* t.join(timeout=1.0) returns because the worker ended
ShutdownJoined(c) ==
    /\ opc[c] = "join"
    /\ ~WorkerAlive
    /\ othr' = NoWorker
    /\ opc' = [opc EXCEPT ![c] = "idle"]
    /\ UNCHANGED <<ovVars, ostopEv, owk, pool, flakes, lastOp, swallowed>>
    /\ ApiOthersSame

\* t.join(timeout=1.0) returns because the timeout expired
ShutdownJoinTimeout(c) ==
    /\ opc[c] = "join"
    /\ WorkerAlive
    /\ othr' = NoWorker
    /\ opc' = [opc EXCEPT ![c] = "idle"]
    /\ UNCHANGED <<ovVars, ostopEv, owk, pool, flakes, lastOp, swallowed>>
    /\ ApiOthersSame

\* _loop: "while not self._stop_ev.is_set()", the copies under _lock, and the idle
\* sleep when the overlay is not allowed, not running, unbound or has no base
WorkerTop(w) ==
    /\ owk[w] = "top"
    /\ owk' = [owk EXCEPT ![w] =
                  IF ostopEv THEN "dead"
                  ELSE IF allowed /\ running /\ bound /\ base # "none"
                       THEN "present" ELSE "top"]
    /\ UNCHANGED <<ovVars, opc, othr, ostopEv, pool, flakes, lastOp, swallowed>>
    /\ ApiOthersSame

\* _loop: compose and "present(to_present)" returns
WorkerPresent(w) ==
    /\ owk[w] = "present"
    /\ owk' = [owk EXCEPT ![w] = "top"]
    /\ UNCHANGED <<ovVars, opc, othr, ostopEv, pool, flakes, lastOp, swallowed>>
    /\ ApiOthersSame

\* the presenter's exception ends the worker thread
WorkerPresentRaisesDies(w) ==
    /\ owk[w] = "present"
    /\ owk' = [owk EXCEPT ![w] = "dead"]
    /\ swallowed' = TRUE
    /\ UNCHANGED <<ovVars, opc, othr, ostopEv, pool, flakes, lastOp>>
    /\ ApiOthersSame

\* _loop: "present(to_present)" raises: "except Exception: time.sleep(0.05)"
WorkerPresentRaises(w) ==
    /\ owk[w] = "present"
    /\ owk' = [owk EXCEPT ![w] = "backoff"]
    /\ swallowed' = TRUE
    /\ UNCHANGED <<ovVars, opc, othr, ostopEv, pool, flakes, lastOp>>
    /\ ApiOthersSame

\* the backoff sleep ends; the memory sentinel runs; next loop iteration
WorkerBackoff(w) ==
    /\ owk[w] = "backoff"
    /\ owk' = [owk EXCEPT ![w] = "top"]
    /\ UNCHANGED <<ovVars, opc, othr, ostopEv, pool, flakes, lastOp, swallowed>>
    /\ ApiOthersSame

(***************************************************************************)
(* main(): one iteration of the polling loop and its exception handlers    *)
(***************************************************************************)
\* hill.newSnow values (cm)
SnowVals == {0, 3, 8}
\* main._prev_snow_cm before the first metric update
NoPrev == -1

\* no metric block has run in this iteration
NoRefresh == [ok |-> FALSE, prev |-> NoPrev, cur |-> 0, calls |-> <<>>]

LoopInit ==
    /\ mpc = "boot"
    /\ hasTouch = FALSE
    /\ coord = FALSE
    /\ curSnow = 0
    /\ prevSnow = NoPrev
    /\ newSnow = 0
    /\ due = FALSE
    /\ logged = {}
    /\ failed = FALSE
    /\ refresh = NoRefresh

LoopOthersSame ==
    UNCHANGED <<dispVars, ledVars, touchVars, apiVars, calibVars, storeVars, readVars,
                brightVars, probVars, lateVars>>

\* the touch controller was opened, or touch stays None; the loop is entered
LoopEnter(t) ==
    /\ mpc = "boot"
    /\ hasTouch' = t
    /\ mpc' = "top"
    /\ UNCHANGED <<coord, curSnow, prevSnow, newSnow, due, logged, failed>>
    /\ UNCHANGED refresh
    /\ LoopOthersSame

\* "current_snow_cm = getattr(main, '_prev_snow_cm', 0)"
LoopTop ==
    /\ mpc = "top"
    /\ curSnow' = IF prevSnow = NoPrev THEN 0 ELSE prevSnow
    /\ failed' = FALSE
    /\ coord' = FALSE
    /\ mpc' = IF hasTouch THEN "read" ELSE "clock"
    /\ UNCHANGED <<hasTouch, prevSnow, newSnow, due, logged>>
    /\ refresh' = NoRefresh
    /\ LoopOthersSame

\* touch.read_touch() returns a sample or None
ReadTouch(c) ==
    /\ mpc = "read"
    /\ coord' = c
    /\ mpc' = IF c THEN "dispatch" ELSE "clock"
    /\ UNCHANGED <<hasTouch, curSnow, prevSnow, newSnow, due, logged, failed>>
    /\ UNCHANGED refresh
    /\ LoopOthersSame

\* touch.read_touch() raises: logged, coord = None
ReadTouchRaises ==
    /\ mpc = "read"
    /\ coord' = FALSE
    /\ logged' = logged \cup {"touch_read"}
    /\ failed' = TRUE
    /\ mpc' = "clock"
    /\ UNCHANGED <<hasTouch, curSnow, prevSnow, newSnow, due>>
    /\ UNCHANGED refresh
    /\ LoopOthersSame

\* map_raw_to_screen and screen_manager.handle_touch return
Dispatch ==
    /\ mpc = "dispatch"
    /\ mpc' = "clock"
    /\ UNCHANGED <<hasTouch, coord, curSnow, prevSnow, newSnow, due, logged,
                   failed>>
    /\ UNCHANGED refresh
    /\ LoopOthersSame

\* map_raw_to_screen or screen_manager.handle_touch raises: logged
DispatchRaises ==
    /\ mpc = "dispatch"
    /\ logged' = logged \cup {"dispatch"}
    /\ failed' = TRUE
    /\ mpc' = "clock"
    /\ UNCHANGED <<hasTouch, coord, curSnow, prevSnow, newSnow, due>>
    /\ UNCHANGED refresh
    /\ LoopOthersSame

\* "if now_ts - last_fetch > FETCH_PERIOD"; last_fetch only moves when getSnow
\* returned, so a fetch that is due stays due
Clock(d) ==
    /\ mpc = "clock"
    /\ due' = (due \/ d)
    /\ mpc' = IF due' THEN "fetch" ELSE "alarm"
    /\ UNCHANGED <<hasTouch, coord, curSnow, prevSnow, newSnow, logged, failed>>
    /\ UNCHANGED refresh
    /\ LoopOthersSame

\* hill.getSnow() returns; last_fetch = now_ts
Fetched(v) ==
    /\ mpc = "fetch"
    /\ newSnow' = v
    /\ due' = FALSE
    /\ mpc' = "redraw"
    /\ UNCHANGED <<hasTouch, coord, curSnow, prevSnow, logged, failed>>
    /\ UNCHANGED refresh
    /\ LoopOthersSame

\* hill.getSnow() raises: printed
FetchRaises ==
    /\ mpc = "fetch"
    /\ logged' = logged \cup {"fetch"}
    /\ failed' = TRUE
    /\ mpc' = "redraw"
    /\ UNCHANGED <<hasTouch, coord, curSnow, prevSnow, newSnow, due>>
    /\ UNCHANGED refresh
    /\ LoopOthersSame

\* screen_manager.redraw() returns
Redrawn ==
    /\ mpc = "redraw"
    /\ mpc' = "metric"
    /\ UNCHANGED <<hasTouch, coord, curSnow, prevSnow, newSnow, due, logged,
                   failed>>
    /\ UNCHANGED refresh
    /\ LoopOthersSame

\* screen_manager.redraw() raises: logged
RedrawRaises ==
    /\ mpc = "redraw"
    /\ logged' = logged \cup {"redraw"}
    /\ failed' = TRUE
    /\ mpc' = "metric"
    /\ UNCHANGED <<hasTouch, coord, curSnow, prevSnow, newSnow, due>>
    /\ UNCHANGED refresh
    /\ LoopOthersSame

\* calls the metric block makes
OverlayTrigger(delta_cm) == [op |-> "trigger", a |-> delta_cm, b |-> 0]
OverlayStop == [op |-> "stop", a |-> 0, b |-> 0]
LedsSetSnow(now, prev) == [op |-> "leds", a |-> now, b |-> prev]

\* the calls of the metric block for the stored previous value and the new one
MetricCalls(prev, cur) ==
    IF prev = NoPrev THEN <<LedsSetSnow(cur, cur)>>
    ELSE IF cur # prev
    THEN <<IF cur > prev THEN OverlayTrigger(cur - prev) ELSE OverlayStop,
           LedsSetSnow(cur, prev)>>
    ELSE <<>>

\* the metric block reacting to every refresh, changed or not
MetricUpdateAlways ==
    /\ mpc = "metric"
    /\ curSnow' = newSnow
    /\ prevSnow' = newSnow
    /\ refresh' = [ok |-> TRUE, prev |-> prevSnow, cur |-> newSnow,
                   calls |-> IF prevSnow = NoPrev
                             THEN <<LedsSetSnow(newSnow, newSnow)>>
                             ELSE <<IF newSnow >= prevSnow
                                    THEN OverlayTrigger(newSnow - prevSnow)
                                    ELSE OverlayStop,
                                    LedsSetSnow(newSnow, prevSnow)>>]
    /\ mpc' = "alarm"
    /\ UNCHANGED <<hasTouch, coord, newSnow, due, logged, failed>>
    /\ LoopOthersSame

\* the metric block: first run initialises, a changed value drives the overlay
\* and the LEDs, then main._prev_snow_cm follows
MetricUpdate ==
    /\ mpc = "metric"
    /\ curSnow' = newSnow
    /\ prevSnow' = newSnow
    /\ refresh' = [ok |-> TRUE, prev |-> prevSnow, cur |-> newSnow,
                   calls |-> MetricCalls(prevSnow, newSnow)]
    /\ mpc' = "alarm"
    /\ UNCHANGED <<hasTouch, coord, newSnow, due, logged, failed>>
    /\ LoopOthersSame

\* the metric block raises (parsing, overlay or LED call): current_snow_cm = 0.
\* On the first run main._prev_snow_cm is assigned before leds_set_snow, on a
\* change after it; the calls before the one that raised were made.
MetricRaises ==
    /\ mpc = "metric"
    /\ curSnow' = 0
    /\ prevSnow' \in {prevSnow} \cup (IF prevSnow = NoPrev THEN {newSnow} ELSE {})
    /\ \E k \in 0..Len(MetricCalls(prevSnow, newSnow)) :
          refresh' = [ok |-> FALSE, prev |-> prevSnow, cur |-> newSnow,
                      calls |-> SubSeq(MetricCalls(prevSnow, newSnow), 1, k)]
    /\ logged' = logged \cup {"metric"}
    /\ failed' = TRUE
    /\ mpc' = "alarm"
    /\ UNCHANGED <<hasTouch, coord, newSnow, due>>
    /\ LoopOthersSame

\* check_and_trigger_alarm(current_snow_cm) returns
Alarm ==
    /\ mpc = "alarm"
    /\ mpc' = "sleep"
    /\ UNCHANGED <<hasTouch, coord, curSnow, prevSnow, newSnow, due, logged,
                   failed>>
    /\ UNCHANGED refresh
    /\ LoopOthersSame

\* check_and_trigger_alarm raises: printed
AlarmRaises ==
    /\ mpc = "alarm"
    /\ logged' = logged \cup {"alarm"}
    /\ failed' = TRUE
    /\ mpc' = "sleep"
    /\ UNCHANGED <<hasTouch, coord, curSnow, prevSnow, newSnow, due>>
    /\ UNCHANGED refresh
    /\ LoopOthersSame

\* time.sleep(0.1); next iteration
LoopSleep ==
    /\ mpc = "sleep"
    /\ mpc' = "top"
    /\ UNCHANGED <<hasTouch, coord, curSnow, prevSnow, newSnow, due, logged,
                   failed>>
    /\ UNCHANGED refresh
    /\ LoopOthersSame

\* a statement outside the inner handlers, or an inner handler itself, raises:
\* the exception reaches the handler around the iteration
Escapes ==
    /\ mpc \in {"read", "dispatch", "clock", "fetch", "redraw", "metric",
                "alarm", "sleep"}
    /\ failed' = TRUE
    /\ mpc' = "outer"
    /\ UNCHANGED <<hasTouch, coord, curSnow, prevSnow, newSnow, due, logged>>
    /\ UNCHANGED refresh
    /\ LoopOthersSame

\* no handler around the iteration: the exception leaves the while loop
OuterMissing ==
    /\ mpc = "outer"
    /\ mpc' = "exited"
    /\ UNCHANGED <<hasTouch, coord, curSnow, prevSnow, newSnow, due, logged,
                   failed>>
    /\ UNCHANGED refresh
    /\ LoopOthersSame

\* "except Exception: logger.exception(...); time.sleep(0.5)", then "while True"
OuterCatch ==
    /\ mpc = "outer"
    /\ logged' = logged \cup {"outer"}
    /\ mpc' = "top"
    /\ UNCHANGED <<hasTouch, coord, curSnow, prevSnow, newSnow, due, failed>>
    /\ UNCHANGED refresh
    /\ LoopOthersSame

(***************************************************************************)
(* Specifications                                                          *)
(***************************************************************************)
(***************************************************************************)
(* Touch calibration                                                       *)
(***************************************************************************)
DeviceWidth == 320
DeviceHeight == 240

Defaults == [x_min |-> 0, x_max |-> 4095, y_min |-> 0, y_max |-> 4095]

\* contents of the calibration file: usable profiles and two the sanity check
\* rejects
Profiles ==
    {Defaults,
     [x_min |-> 300, x_max |-> 3800, y_min |-> 300, y_max |-> 3700],
     [x_min |-> 2000, x_max |-> 2010, y_min |-> 1000, y_max |-> 1003],
     [x_min |-> 500, x_max |-> 500, y_min |-> 300, y_max |-> 3700],
     [x_min |-> 300, x_max |-> 3800, y_min |-> 3000, y_max |-> 1000]}

\* raw 12-bit samples
RawSamples == {0, 150, 300, 310, 311, 1001, 2005, 3700, 3800, 4095}

NoPoint == <<-1, -1>>

\* int(n / d) for d > 0: Python truncates toward zero
Trunc(n, d) == IF n >= 0 THEN n \div d ELSE -((-n) \div d)

\* one axis mapped without the mounting inversion
MapAxisNoInvert(raw, lo, hi, size) ==
    LET d == Max(1, hi - lo)
        s == Trunc((raw - lo) * size, d)
    IN  Max(0, Min(size - 1, s))

\* one axis of map_raw_to_screen: scale, invert, clamp to the panel
MapAxis(raw, lo, hi, size) ==
    LET d == Max(1, hi - lo)
        s == Trunc((raw - lo) * size, d)
    IN  Max(0, Min(size - 1, size - 1 - s))

map_raw_to_screen(x, y) ==
    <<MapAxis(x, calib.x_min, calib.x_max, DeviceWidth),
      MapAxis(y, calib.y_min, calib.y_max, DeviceHeight)>>

CalibInit ==
    /\ cpc = "boot"
    /\ calib = Defaults
    /\ rawPt = NoPoint
    /\ mapped = NoPoint
    /\ prevRaw = NoPoint
    /\ prevMapped = NoPoint

CalibOthersSame ==
    UNCHANGED <<dispVars, ledVars, touchVars, apiVars, loopVars, storeVars, readVars,
                brightVars, probVars, lateVars>>

\* load_safe with a calibration file holding p: an unusable profile resets
\* the calibrator to the defaults
LoadSafe(p) ==
    /\ cpc = "boot"
    /\ calib' = IF p.x_max <= p.x_min \/ p.y_max <= p.y_min THEN Defaults ELSE p
    /\ cpc' = "ready"
    /\ UNCHANGED <<rawPt, mapped, prevRaw, prevMapped>>
    /\ CalibOthersSame

\* load_safe without a readable calibration file
LoadSafeNoFile ==
    /\ cpc = "boot"
    /\ calib' = Defaults
    /\ cpc' = "ready"
    /\ UNCHANGED <<rawPt, mapped, prevRaw, prevMapped>>
    /\ CalibOthersSame

\* the main loop maps one raw sample
MapRawToScreen(x, y) ==
    /\ cpc = "ready"
    /\ rawPt' = <<x, y>>
    /\ mapped' = map_raw_to_screen(x, y)
    /\ prevRaw' = rawPt
    /\ prevMapped' = mapped
    /\ UNCHANGED <<cpc, calib>>
    /\ CalibOthersSame

(***************************************************************************)
(* Calibration file and guided calibration                                 *)
(***************************************************************************)
Keys == <<"x_min", "x_max", "y_min", "y_max">>

\* json.dump of a non-negative int: its decimal digits
RECURSIVE FormatInt(_)
FormatInt(n) == IF n < 10 THEN <<n>> ELSE Append(FormatInt(n \div 10), n % 10)

\* a digit outside 0..9 stands for a character int() rejects
IsNumber(ds) == ds # <<>> /\ \A i \in 1..Len(ds) : ds[i] \in 0..9

\* int() of a decimal text
RECURSIVE ParseInt(_)
ParseInt(ds) ==
    IF Len(ds) = 1 THEN ds[1]
    ELSE ParseInt(SubSeq(ds, 1, Len(ds) - 1)) * 10 + ds[Len(ds)]

Field(p, k) ==
    IF k = "x_min" THEN p.x_min ELSE IF k = "x_max" THEN p.x_max
    ELSE IF k = "y_min" THEN p.y_min ELSE p.y_max

\* the file: absent, or the key/value entries written so far and whether the
\* document was written to its end
NoFile == [exists |-> FALSE, fields |-> <<>>, complete |-> FALSE]
Truncated == [exists |-> TRUE, fields |-> <<>>, complete |-> FALSE]

\* the text json.dump writes for profile p
Encode(p) ==
    [exists |-> TRUE,
     fields |-> [i \in 1..4 |-> <<Keys[i], FormatInt(Field(p, Keys[i]))>>],
     complete |-> TRUE]

\* contents the file can have when the program finds it
FileContents ==
    {NoFile,
     Truncated,
     Encode([x_min |-> 300, x_max |-> 3800, y_min |-> 300, y_max |-> 3700]),
     Encode([x_min |-> 500, x_max |-> 500, y_min |-> 300, y_max |-> 3700]),
     Encode([x_min |-> 300, x_max |-> 3800, y_min |-> 3000, y_max |-> 1000]),
     [exists |-> TRUE, fields |-> << <<"x_min", <<3, 0, 0>> >> >>, complete |-> TRUE],
     [exists |-> TRUE,
      fields |-> << <<"x_min", <<4, 0, 9, 5>> >>, <<"x_max", <<10>> >> >>,
      complete |-> TRUE]}

Has(f, k) == \E i \in 1..Len(f.fields) : f.fields[i][1] = k
Text(f, k) == f.fields[CHOOSE i \in 1..Len(f.fields) : f.fields[i][1] = k][2]
\* int(data.get(k, default)) raises
Bad(f, k) == Has(f, k) /\ ~IsNumber(Text(f, k))
\* the key is never found: the default is taken
GotDefault(f, k, default) == default

\* int(data.get(k, default))
Got(f, k, default) == IF Has(f, k) THEN ParseInt(Text(f, k)) ELSE default

\* the four assignments of load / load_safe; none of them raises
Decoded(f) ==
    [x_min |-> Got(f, "x_min", 0), x_max |-> Got(f, "x_max", 4095),
     y_min |-> Got(f, "y_min", 0), y_max |-> Got(f, "y_max", 4095)]

\* the fields after the assignments of load that precede the one that raises
\* on key number n
DecodedBefore(f, n) ==
    [x_min |-> IF n > 1 THEN Got(f, "x_min", 0) ELSE calib.x_min,
     x_max |-> IF n > 2 THEN Got(f, "x_max", 4095) ELSE calib.x_max,
     y_min |-> IF n > 3 THEN Got(f, "y_min", 0) ELSE calib.y_min,
     y_max |-> calib.y_max]

Degenerate(p) == p.x_max <= p.x_min \/ p.y_max <= p.y_min

\* raw points the touch controller can report for a tap
CalPoints == {<<400, 500>>, <<3700, 3600>>, <<500, 560>>}
NumTargets == 4
NoProfile == [x_min |-> -1, x_max |-> -1, y_min |-> -1, y_max |-> -1]

_dist2(a, b) == (a[1] - b[1]) * (a[1] - b[1]) + (a[2] - b[2]) * (a[2] - b[2])

SetMin(S) == CHOOSE m \in S : \A v \in S : m <= v
SetMax(S) == CHOOSE m \in S : \A v \in S : m >= v

StoreInit ==
    /\ fpc = "idle"
    /\ cfile = NoFile
    /\ fop = "none"
    /\ fret = "none"
    /\ fcaller = "api"
    /\ samples = <<>>
    /\ timedOut = FALSE
    /\ afterSave = FALSE
    /\ calib0 = NoProfile
    /\ cfile0 = NoFile

StoreOthersSame ==
    UNCHANGED <<dispVars, ledVars, touchVars, apiVars, loopVars, cpc, rawPt,
                mapped, prevRaw, prevMapped, readVars, brightVars, probVars, lateVars>>

\* an operation is called: remember what it found
Called(op) ==
    /\ fop' = op
    /\ calib0' = calib
    /\ cfile0' = cfile
    /\ timedOut' = FALSE

\* the file is replaced from outside the program (the standalone utility,
\* an editor, a restored backup)
DiskHolds(c) ==
    /\ fpc = "idle"
    /\ cfile' = c
    /\ fop' = "disk"
    /\ fret' = "none"
    /\ afterSave' = FALSE
    /\ UNCHANGED <<fpc, calib, fcaller, samples, timedOut, calib0, cfile0>>
    /\ StoreOthersSame

\* TouchCalibrator.load: no file, json.load raising, int() raising after some
\* fields were assigned, the sanity check, or success
Load ==
    /\ fpc = "idle"
    /\ Called("load")
    /\ IF ~cfile.exists THEN calib' = calib /\ fret' = "false"
       ELSE IF ~cfile.complete THEN calib' = calib /\ fret' = "raised"
       ELSE IF \E n \in 1..4 : Bad(cfile, Keys[n])
       THEN LET n == SetMin({m \in 1..4 : Bad(cfile, Keys[m])})
            IN  calib' = DecodedBefore(cfile, n) /\ fret' = "raised"
       ELSE IF Degenerate(Decoded(cfile)) THEN calib' = Defaults /\ fret' = "false"
       ELSE calib' = Decoded(cfile) /\ fret' = "true"
    /\ afterSave' = FALSE
    /\ UNCHANGED <<fpc, cfile, fcaller, samples>>
    /\ StoreOthersSame

\* TouchCalibrator.load_safe: anything but a usable profile resets the defaults
FileLoadSafe ==
    /\ fpc = "idle"
    /\ Called("load_safe")
    /\ IF \/ ~cfile.exists
          \/ ~cfile.complete
          \/ \E n \in 1..4 : Bad(cfile, Keys[n])
          \/ Degenerate(Decoded(cfile))
       THEN calib' = Defaults /\ fret' = "false"
       ELSE calib' = Decoded(cfile) /\ fret' = "true"
    /\ afterSave' = (fop = "save_safe" /\ fret = "true")
    /\ UNCHANGED <<fpc, cfile, fcaller, samples>>
    /\ StoreOthersSame

(* ---------------- save_safe ---------------- *)

\* save_safe is called on its own
SaveSafe ==
    /\ fpc = "idle"
    /\ Called("save_safe")
    /\ fpc' = "open"
    /\ fcaller' = "api"
    /\ fret' = "none"
    /\ afterSave' = FALSE
    /\ UNCHANGED <<calib, cfile, samples>>
    /\ StoreOthersSame

\* where save_safe returns to, and what its caller makes of the result:
\* run_touch_calibration ignores it and returns True
SaveReturns(ok) ==
    /\ fpc' = "idle"
    /\ fret' = IF fcaller = "calibration" \/ ok THEN "true" ELSE "false"
    /\ samples' = <<>>

\* open(CALIBRATION_FILE, "w"): the file is created or cut to length zero
SaveOpen ==
    /\ fpc = "open"
    /\ cfile' = Truncated
    /\ fpc' = "write"
    /\ UNCHANGED <<calib, fop, fret, fcaller, samples, timedOut, afterSave,
                   calib0, cfile0>>
    /\ StoreOthersSame

\* makedirs or open raises: the except branch returns False
SaveOpenRaises ==
    /\ fpc = "open"
    /\ SaveReturns(FALSE)
    /\ UNCHANGED <<calib, cfile, fop, fcaller, timedOut, afterSave, calib0,
                   cfile0>>
    /\ StoreOthersSame

\* json.dump writes the next entry, or the end of the document and the file
\* is closed
SaveWrite ==
    /\ fpc = "write"
    /\ IF Len(cfile.fields) < 4
       THEN /\ LET k == Keys[Len(cfile.fields) + 1]
               IN  cfile' = [cfile EXCEPT
                               !.fields = Append(@, <<k, FormatInt(Field(calib, k))>>)]
            /\ UNCHANGED <<fpc, fret, samples>>
       ELSE /\ cfile' = [cfile EXCEPT !.complete = TRUE]
            /\ SaveReturns(TRUE)
    /\ UNCHANGED <<calib, fop, fcaller, timedOut, afterSave, calib0, cfile0>>
    /\ StoreOthersSame

\* a write raises (disk full, I/O error): the except branch returns False and
\* the file stays as far as it was written
SaveWriteRaises ==
    /\ fpc = "write"
    /\ SaveReturns(FALSE)
    /\ UNCHANGED <<calib, cfile, fop, fcaller, timedOut, afterSave, calib0,
                   cfile0>>
    /\ StoreOthersSame

\* the process is killed or the power is cut while save_safe runs
Interrupted ==
    /\ fpc \in {"open", "write"}
    /\ fpc' = "down"
    /\ UNCHANGED <<calib, cfile, fop, fret, fcaller, samples, timedOut,
                   afterSave, calib0, cfile0>>
    /\ StoreOthersSame

(* ---------------- run_touch_calibration ---------------- *)

RunTouchCalibration ==
    /\ fpc = "idle"
    /\ Called("calibration")
    /\ fpc' = "target"
    /\ fret' = "none"
    /\ samples' = <<>>
    /\ afterSave' = FALSE
    /\ UNCHANGED <<calib, cfile, fcaller>>
    /\ StoreOthersSame

\* a stable sample away from the previous accepted one is taken for the target
CalSample(p) ==
    /\ fpc = "target"
    /\ Len(samples) < NumTargets
    /\ samples # <<>> => _dist2(p, samples[Len(samples)]) >= 1600
    /\ samples' = Append(samples, p)
    /\ UNCHANGED <<fpc, calib, cfile, fop, fret, fcaller, timedOut, afterSave,
                   calib0, cfile0>>
    /\ StoreOthersSame

\* the timeout branch that also stores what was sampled so far
CalTimeoutSaves ==
    /\ fpc = "target"
    /\ Len(samples) < NumTargets
    /\ timedOut' = TRUE
    /\ cfile' = Encode(calib)
    /\ fret' = "false"
    /\ fpc' = "idle"
    /\ samples' = <<>>
    /\ UNCHANGED <<calib, fop, fcaller, afterSave, calib0, cfile0>>
    /\ StoreOthersSame

\* no accepted sample within timeout_sec: return False
CalTimeout ==
    /\ fpc = "target"
    /\ Len(samples) < NumTargets
    /\ timedOut' = TRUE
    /\ fret' = "false"
    /\ fpc' = "idle"
    /\ samples' = <<>>
    /\ UNCHANGED <<calib, cfile, fop, fcaller, afterSave, calib0, cfile0>>
    /\ StoreOthersSame

\* all targets sampled: assign the fields, check the spans, save
CalFinalize ==
    /\ fpc = "target"
    /\ Len(samples) = NumTargets
    /\ LET xs == {samples[i][1] : i \in 1..NumTargets}
           ys == {samples[i][2] : i \in 1..NumTargets}
           p == [x_min |-> Max(0, SetMin(xs)), x_max |-> SetMax(xs),
                 y_min |-> Max(0, SetMin(ys)), y_max |-> SetMax(ys)]
       IN  IF p.x_max - p.x_min < 200 \/ p.y_max - p.y_min < 200
           THEN /\ calib' = Defaults
                /\ fret' = "false"
                /\ fpc' = "idle"
                /\ samples' = <<>>
                /\ UNCHANGED fcaller
           ELSE /\ calib' = p
                /\ fpc' = "open"
                /\ fcaller' = "calibration"
                /\ UNCHANGED <<fret, samples>>
    /\ UNCHANGED <<cfile, fop, timedOut, afterSave, calib0, cfile0>>
    /\ StoreOthersSame

(***************************************************************************)
(* Raw input reader                                                        *)
(***************************************************************************)
\* the samples argument of read_touch
NumReadings == 4
tolerance == 50

\* (raw_x, raw_y) pairs the controller can deliver
RawReadings ==
    {<<512, 512>>, <<515, 510>>, <<509, 515>>, <<3800, 3800>>, <<100, 512>>,
     <<512, 4000>>, <<562, 512>>, <<563, 512>>}

RECURSIVE Sum(_)
Sum(s) == IF s = <<>> THEN 0 ELSE s[1] + Sum(Tail(s))

SeqMax(s) == SetMax({s[i] : i \in 1..Len(s)})
SeqMin(s) == SetMin({s[i] : i \in 1..Len(s)})

\* the band test that also takes the rails' limits themselves
InBandInclusive(p) ==
    100 <= p[1] /\ p[1] <= 4000 /\ 100 <= p[2] /\ p[2] <= 4000

\* 100 < raw_x < 4000 and 100 < raw_y < 4000
InBand(p) == 100 < p[1] /\ p[1] < 4000 /\ 100 < p[2] /\ p[2] < 4000

ReadInit ==
    /\ rpc = "idle"
    /\ raws = <<>>
    /\ readings = <<>>
    /\ rout = NoPoint

ReadOthersSame ==
    UNCHANGED <<dispVars, ledVars, touchVars, apiVars, loopVars, calibVars,
                storeVars, brightVars, probVars, lateVars>>

\* read_touch is called and the pen is down
ReadTouchCalled ==
    /\ rpc = "idle"
    /\ rpc' = "sample"
    /\ raws' = <<>>
    /\ readings' = <<>>
    /\ rout' = NoPoint
    /\ ReadOthersSame

\* read_touch is called and _pressed() is false
NotPressed ==
    /\ rpc = "idle"
    /\ rpc' = "idle"
    /\ raws' = <<>>
    /\ readings' = <<>>
    /\ rout' = NoPoint
    /\ ReadOthersSame

\* one pass of the sampling loop: read both channels, keep the pair if it is
\* inside the band
Read12(p) ==
    /\ rpc = "sample"
    /\ Len(raws) < NumReadings
    /\ raws' = Append(raws, p)
    /\ readings' = IF InBand(p) THEN Append(readings, p) ELSE readings
    /\ UNCHANGED <<rpc, rout>>
    /\ ReadOthersSame

\* after the loop: too few readings, too wide a spread, or the integer mean
ReadReturns ==
    /\ rpc = "sample"
    /\ Len(raws) = NumReadings
    /\ LET xs == [i \in 1..Len(readings) |-> readings[i][1]]
           ys == [i \in 1..Len(readings) |-> readings[i][2]]
       IN  rout' = IF Len(readings) < 3 THEN NoPoint
                   ELSE IF \/ SeqMax(xs) - SeqMin(xs) > tolerance
                           \/ SeqMax(ys) - SeqMin(ys) > tolerance
                   THEN NoPoint
                   ELSE <<Sum(xs) \div Len(xs), Sum(ys) \div Len(ys)>>
    /\ rpc' = "idle"
    /\ UNCHANGED <<raws, readings>>
    /\ ReadOthersSame

(***************************************************************************)
(* Brightness profiles                                                     *)
(***************************************************************************)
\* toggles the model follows
MaxToggles == 3

\* BRIGHTNESS_LEVELS: the scale of every profile, in hundredths
LevelScales == <<100, 35>>

NoIndex == -1
\* what the file can hold at boot: nothing readable, or an integer
BootFiles == {NoIndex, 0, 1, 7}

\* _read_brightness_index: the default 0 on any failure, else the clamped index
_read_brightness_index(c) ==
    IF c = NoIndex THEN 0 ELSE Max(0, Min(c, Len(LevelScales) - 1))

\* _apply_dim_overlay: the factor the frame is multiplied with
DimFactor(scale) == IF scale >= 100 THEN 100 ELSE Max(5, Min(100, scale))

BrightInit ==
    /\ bpc = "import"
    /\ bindex = 0
    /\ bscale = 100
    /\ bfile = NoIndex
    /\ dimUsed = 100
    /\ toggles = 0
    /\ persistOk = TRUE
    /\ bindex0 = 0
    /\ bfile0 = NoIndex

BrightOthersSame ==
    UNCHANGED <<dispVars, touchVars, apiVars, loopVars, calibVars, storeVars,
                readVars, probVars, lateVars>>

ledRest == <<lpc, lcall, lnow, lprev, ledLock, breathStop, breathThread,
             sparkleStop, sparkleThread, epc, baseColor, currentCm, prevCm,
             breathPeriod>>

\* BrightnessState(): read the file holding c and apply the index
BrightnessStateInit(c) ==
    /\ bpc = "import"
    /\ bfile' = c
    /\ bindex' = _read_brightness_index(c)
    /\ bscale' = LevelScales[_read_brightness_index(c) + 1]
    /\ bpc' = "import_leds"
    /\ UNCHANGED <<dimUsed, toggles, persistOk, bindex0, bfile0, ledVars>>
    /\ BrightOthersSame

\* set_global_brightness: clamp and store the scale
StoreGlobalScale ==
    /\ bpc \in {"import_leds", "leds"}
    /\ globalScale' = Max(5, Min(100, bscale))
    /\ bpc' = IF bpc = "leds" THEN "repaint" ELSE "import_repaint"
    /\ UNCHANGED <<ledRest, stripOp>>
    /\ UNCHANGED <<bindex, bscale, bfile, dimUsed, toggles, persistOk, bindex0,
                   bfile0>>
    /\ BrightOthersSame

\* set_global_brightness: _paint_solid of the base colour under _lock
Repaint ==
    /\ bpc \in {"import_repaint", "repaint"}
    /\ ledLock = LNone
    /\ stripOp' = [by |-> LMain, locked |-> TRUE,
                   over |-> Peak(_paint_rgb(baseColor, RepaintBrightness)) * 100
                              > 255 * globalScale,
                   after |-> FALSE]
    /\ bpc' = IF bpc = "repaint" THEN "reload" ELSE "ready"
    /\ UNCHANGED <<ledRest, globalScale>>
    /\ UNCHANGED <<bindex, bscale, bfile, dimUsed, toggles, persistOk, bindex0,
                   bfile0>>
    /\ BrightOthersSame

\* cycle() that stops at the last profile
CycleNoWrap ==
    /\ bpc = "ready"
    /\ toggles < MaxToggles
    /\ bindex0' = bindex
    /\ bfile0' = bfile
    /\ bindex' = Min(bindex + 1, Len(LevelScales) - 1)
    /\ bscale' = LevelScales[Min(bindex + 1, Len(LevelScales) - 1) + 1]
    /\ bpc' = "persist"
    /\ UNCHANGED <<bfile, dimUsed, toggles, persistOk, ledVars>>
    /\ BrightOthersSame

\* _toggle_brightness: cycle() advances to the next profile and applies it
Cycle ==
    /\ bpc = "ready"
    /\ toggles < MaxToggles
    /\ bindex0' = bindex
    /\ bfile0' = bfile
    /\ bindex' = (bindex + 1) % Len(LevelScales)
    /\ bscale' = LevelScales[((bindex + 1) % Len(LevelScales)) + 1]
    /\ bpc' = "persist"
    /\ UNCHANGED <<bfile, dimUsed, toggles, persistOk, ledVars>>
    /\ BrightOthersSame

\* _write_brightness_index: the clamped index replaces the file
WriteIndex ==
    /\ bpc = "persist"
    /\ bfile' = Max(0, Min(bindex, Len(LevelScales) - 1))
    /\ persistOk' = TRUE
    /\ bpc' = "leds"
    /\ UNCHANGED <<bindex, bscale, dimUsed, toggles, bindex0, bfile0, ledVars>>
    /\ BrightOthersSame

\* _write_brightness_index: the write raises, False is returned and ignored
WriteIndexFails ==
    /\ bpc = "persist"
    /\ persistOk' = FALSE
    /\ bpc' = "leds"
    /\ UNCHANGED <<bindex, bscale, bfile, dimUsed, toggles, bindex0, bfile0,
                   ledVars>>
    /\ BrightOthersSame

\* the popup and the reloaded main menu are presented: present() dims with
\* brightness_state.scale
ReloadMenu ==
    /\ bpc = "reload"
    /\ dimUsed' = DimFactor(bscale)
    /\ toggles' = toggles + 1
    /\ bpc' = "ready"
    /\ UNCHANGED <<bindex, bscale, bfile, persistOk, bindex0, bfile0, ledVars>>
    /\ BrightOthersSame

\* present() called by any thread at any time
PresentDims ==
    /\ bpc \notin {"import", "import_leds"}
    /\ dimUsed' = DimFactor(bscale)
    /\ UNCHANGED <<bpc, bindex, bscale, bfile, toggles, persistOk, bindex0,
                   bfile0, ledVars>>
    /\ BrightOthersSame

\* the metric changes between toggles: set_snow_value stores a base colour
BrightSnowValue(now) ==
    /\ bpc = "ready"
    /\ currentCm' = now
    /\ baseColor' = IF now > 0 THEN _color_for_cm(Max(0, Min(20, now)))
                    ELSE <<0, 0, 0>>
    /\ UNCHANGED <<lpc, lcall, lnow, lprev, ledLock, breathStop, breathThread,
                   sparkleStop, sparkleThread, epc, prevCm, breathPeriod,
                   stripOp, globalScale>>
    /\ UNCHANGED brightVars
    /\ BrightOthersSame

(***************************************************************************)
(* Sparkle spawn probability                                               *)
(***************************************************************************)
\* values _current_cm can hold while a sparkle thread runs
SparkleCms == 14..30
NoCm == -1

\* spawn_prob = 0.10 + 0.15 * max(0.0, min(1.0, (cm - 15) / 5.0)), in
\* hundredths: 15 * (cm - 15) / 5 is 3 * (cm - 15)
_spawn_prob(cm) == 10 + 3 * Max(0, Min(5, cm - 15))

ProbInit ==
    /\ spawnCm = NoCm
    /\ spawnProb = 0
    /\ spawnCm0 = NoCm
    /\ spawnProb0 = 0

\* one iteration of _sparkle_loop reads _current_cm and computes spawn_prob
SparkleIteration(cm) ==
    /\ spawnCm' = cm
    /\ spawnProb' = _spawn_prob(cm)
    /\ spawnCm0' = spawnCm
    /\ spawnProb0' = spawnProb
    /\ UNCHANGED <<dispVars, ledVars, touchVars, apiVars, loopVars, calibVars,
                   storeVars, readVars, brightVars, lateVars>>


(***************************************************************************)
(* Breathing period                                                        *)
(***************************************************************************)
\* values of abs(raw_now - raw_prev), and two more below them
PeriodDeltas == -1..14
NoPeriod == [delta |-> 0, period |-> 0]

PeriodInit ==
    /\ periodOf = NoPeriod
    /\ periodOf0 = NoPeriod

\* a call of _breath_period_for_delta(delta)
BreathPeriodForDelta(delta) ==
    /\ periodOf' = [delta |-> delta, period |-> _breath_period_for_delta(delta)]
    /\ periodOf0' = periodOf
    /\ PeriodOthersSame


(***************************************************************************)
(* Overlay density and speed tables                                        *)
(***************************************************************************)
\* deltas handed to trigger: the table's 1..10 and values on both sides
TableDeltas == -1..12
NoLookup == [delta_cm |-> 0, density |-> 0, speed |-> 0]

TableInit ==
    /\ tableOf = NoLookup
    /\ tableOf0 = NoLookup

\* trigger(delta_cm): the clamp and the two table lookups (index delta - 1 of
\* a list that starts at 0 is entry delta of a sequence that starts at 1)
TriggerLookup(delta_cm) ==
    /\ LET delta == ClampDelta(delta_cm)
       IN tableOf' = [delta_cm |-> delta_cm, density |-> _DENSITY[delta],
                      speed |-> _SPEED[delta]]
    /\ tableOf0' = tableOf
    /\ TableOthersSame


(***************************************************************************)
(* Overlay frame pacing                                                    *)
(***************************************************************************)
\* tunables; percentages are in tenths of a percent
MAX_CPU_PCT == 800
LOW_CPU_PCT == 400
BASE_FPS == 24
PEAK_FPS == 28
MIN_FPS == 10

\* values of psutil's cpu_percent: around both thresholds, idle, one core
\* saturated, all four cores saturated
CpuPcts == {0, 125, 399, 400, 401, 600, 799, 800, 801, 1000, 2500, 4000}
NoPace == [cpu_pct |-> -1, target_fps |-> 0]

\* the pacing with the ceiling itself counted as overload
target_fps_inclusive(cpu_pct) ==
    IF cpu_pct >= MAX_CPU_PCT THEN Max(MIN_FPS, (BASE_FPS * 5) \div 10)
    ELSE IF cpu_pct < LOW_CPU_PCT THEN Min(PEAK_FPS, BASE_FPS + 2)
    ELSE BASE_FPS

\* "target_fps = BASE_FPS; if cpu_pct > MAX_CPU_PCT: max(MIN_FPS,
\* int(BASE_FPS * 0.5)); elif cpu_pct < 40.0: min(PEAK_FPS, BASE_FPS + 2)"
target_fps(cpu_pct) ==
    IF cpu_pct > MAX_CPU_PCT THEN Max(MIN_FPS, (BASE_FPS * 5) \div 10)
    ELSE IF cpu_pct < LOW_CPU_PCT THEN Min(PEAK_FPS, BASE_FPS + 2)
    ELSE BASE_FPS

PaceInit ==
    /\ paceOf = NoPace
    /\ paceOf0 = NoPace

\* one iteration of _loop that animates: read the load, choose the rate
LoopPace(cpu_pct) ==
    /\ paceOf' = [cpu_pct |-> cpu_pct, target_fps |-> target_fps(cpu_pct)]
    /\ paceOf0' = paceOf
    /\ PaceOthersSame


(***************************************************************************)
(* Overlay memory sentinel                                                 *)
(***************************************************************************)
MEM_RESET_MB == 64
\* recreations of the buffers the model follows
MaxRecreate == 2
\* resident memory at construction and the values memory_info() returns, in MB
InitRss == 100
RssLevels == {90, 100, 130, 160, 170, 240}

\* __init__'s snapshot, in the shape of a check
NoCheck == [real |-> FALSE, rss |-> InitRss, base |-> InitRss,
            recreated |-> FALSE, gen0 |-> 0, gen |-> 0]

SentInit ==
    /\ lastRss = InitRss
    /\ elapsed = 0
    /\ bufGen = 0
    /\ chk = NoCheck
    /\ chk0 = NoCheck
    /\ jumped = FALSE

\* an iteration of _loop with "t - self._last_rss_check > 2.0" false
SentinelNotDue ==
    /\ elapsed <= 2
    /\ elapsed' = elapsed + 1
    /\ UNCHANGED <<lastRss, bufGen, chk, chk0, jumped>>
    /\ SentOthersSame

\* the sentinel recreating the buffers and leaving _last_rss as it was
SentinelCheckNoRebase(rss) ==
    /\ elapsed > 2
    /\ (rss - lastRss > MEM_RESET_MB) => bufGen < MaxRecreate
    /\ elapsed' = 0
    /\ LET grown == rss - lastRss > MEM_RESET_MB
           made == IF grown THEN bufGen + 1 ELSE bufGen
       IN /\ bufGen' = made
          /\ lastRss' = lastRss
          /\ chk' = [real |-> TRUE, rss |-> rss, base |-> lastRss,
                     recreated |-> grown, gen0 |-> bufGen, gen |-> made]
    /\ chk0' = chk
    /\ jumped' = (jumped \/ rss - chk.rss > MEM_RESET_MB)
    /\ SentOthersSame

\* the memory sentinel when it is due: stamp the check, read rss, and when
\* rss - _last_rss exceeds the threshold recreate overlay, draw and frame under
\* _lock, gc.collect(), _last_rss = rss
SentinelCheck(rss) ==
    /\ elapsed > 2
    /\ (rss - lastRss > MEM_RESET_MB) => bufGen < MaxRecreate
    /\ elapsed' = 0
    /\ LET grown == rss - lastRss > MEM_RESET_MB
           made == IF grown THEN bufGen + 1 ELSE bufGen
       IN /\ bufGen' = made
          /\ lastRss' = IF grown THEN rss ELSE lastRss
          /\ chk' = [real |-> TRUE, rss |-> rss, base |-> lastRss,
                     recreated |-> grown, gen0 |-> bufGen, gen |-> made]
    /\ chk0' = chk
    /\ jumped' = (jumped \/ rss - chk.rss > MEM_RESET_MB)
    /\ SentOthersSame


(***************************************************************************)
(* Guided calibration: targets and release detection                       *)
(***************************************************************************)
\* where the finger can rest: three far apart, one near the first
GuidePoints == CalPoints \cup {<<410, 505>>}

GuideInit ==
    /\ gpc = "target"
    /\ gsamples = <<>>
    /\ finger = NoPoint
    /\ contDown = FALSE
    /\ releaseRead = FALSE
    /\ rejectedNear = FALSE

\* the user puts the finger down, slides it, lifts it
FingerDown(p) ==
    /\ finger = NoPoint
    /\ finger' = p
    /\ UNCHANGED <<gpc, gsamples, contDown, releaseRead, rejectedNear>>
    /\ GuideOthersSame

FingerSlides(p) ==
    /\ finger # NoPoint
    /\ finger # p
    /\ finger' = p
    /\ UNCHANGED <<gpc, gsamples, contDown, releaseRead, rejectedNear>>
    /\ GuideOthersSame

FingerUp ==
    /\ finger # NoPoint
    /\ finger' = NoPoint
    /\ contDown' = FALSE
    /\ UNCHANGED <<gpc, gsamples, releaseRead, rejectedNear>>
    /\ GuideOthersSame

\* the target loop reads a coordinate within 1600 (squared) of the previous
\* sample: sleep and read again
TargetSkipsNear ==
    /\ gpc = "target"
    /\ finger # NoPoint
    /\ gsamples # <<>>
    /\ _dist2(finger, gsamples[Len(gsamples)]) < 1600
    /\ rejectedNear' = TRUE
    /\ UNCHANGED <<gpc, gsamples, finger, contDown, releaseRead>>
    /\ GuideOthersSame

\* the target loop reads a coordinate it takes: samples.append(sample), then
\* _wait_for_release()
TargetAccepts ==
    /\ gpc = "target"
    /\ finger # NoPoint
    /\ gsamples # <<>> => _dist2(finger, gsamples[Len(gsamples)]) >= 1600
    /\ gsamples' = Append(gsamples, finger)
    /\ contDown' = TRUE
    /\ releaseRead' = FALSE
    /\ gpc' = "release"
    /\ UNCHANGED <<finger, rejectedNear>>
    /\ GuideOthersSame

\* no sample within timeout_sec: popup, return False
TargetTimesOut ==
    /\ gpc = "target"
    /\ gpc' = "failed"
    /\ UNCHANGED <<gsamples, finger, contDown, releaseRead, rejectedNear>>
    /\ GuideOthersSame

\* where run_touch_calibration goes when _wait_for_release has returned
AfterRelease == IF Len(gsamples) = NumTargets THEN "done" ELSE "target"

\* _wait_for_release: read_touch returns None, the function returns True
ReleaseSeen ==
    /\ gpc = "release"
    /\ finger = NoPoint
    /\ releaseRead' = TRUE
    /\ gpc' = AfterRelease
    /\ UNCHANGED <<gsamples, finger, contDown, rejectedNear>>
    /\ GuideOthersSame

\* _wait_for_release: read_touch raises, the function returns True
ReleaseReadRaises ==
    /\ gpc = "release"
    /\ gpc' = AfterRelease
    /\ UNCHANGED <<gsamples, finger, contDown, releaseRead, rejectedNear>>
    /\ GuideOthersSame

\* _wait_for_release: release_timeout passes with the finger down, the
\* function returns False and the caller does not look at the result
ReleaseTimesOut ==
    /\ gpc = "release"
    /\ finger # NoPoint
    /\ gpc' = AfterRelease
    /\ UNCHANGED <<gsamples, finger, contDown, releaseRead, rejectedNear>>
    /\ GuideOthersSame


(***************************************************************************)
(* display_lock, SnowfallOverlay._lock and SnowLEDs._lock                  *)
(***************************************************************************)
LockNames == {"display", "overlay", "led"}
LockUsers == {"main", "worker", "effect"}

\* the "with <lock>:" blocks every operation passes through, in program order;
\* each block is left before the next statement runs
LockProgram(op) ==
    CASE op = "draw_report" -> <<"overlay", "display">>
      [] op = "draw_other" -> <<"display">>
      [] op = "set_screen" -> <<"overlay", "overlay", "overlay", "display">>
      [] op = "trigger" -> <<"overlay">>
      [] op = "stop" -> <<"overlay">>
      [] op = "set_snow_value" -> <<"led", "led">>
      [] op = "set_global_brightness" -> <<"led">>
      [] op = "loop_idle" -> <<"overlay">>
      [] op = "loop_frame" -> <<"overlay", "overlay", "display">>
      [] op = "loop_frame_recreate" -> <<"overlay", "overlay", "display", "overlay">>
      [] op = "breathe_frame" -> <<"led">>
      [] op = "sparkle_frame" -> <<"led">>

\* what each thread runs: the GUI thread draws, switches screens and reacts
\* to the metric; the overlay worker loops; an effect thread paints
OpsOf(t) ==
    CASE t = "main" -> {"draw_report", "draw_other", "set_screen", "trigger",
                        "stop", "set_snow_value", "set_global_brightness"}
      [] t = "worker" -> {"loop_idle", "loop_frame", "loop_frame_recreate"}
      [] t = "effect" -> {"breathe_frame", "sparkle_frame"}

LockInit ==
    /\ kop = [t \in LockUsers |-> "idle"]
    /\ kstep = [t \in LockUsers |-> 0]
    /\ kphase = [t \in LockUsers |-> "out"]
    /\ kheld = [l \in LockNames |-> "none"]

\* the lock thread t is at
AtLock(t) == LockProgram(kop[t])[kstep[t]]

\* thread t starts an operation and arrives at its first "with"
LockBegin(t, op) ==
    /\ kop[t] = "idle"
    /\ kop' = [kop EXCEPT ![t] = op]
    /\ kstep' = [kstep EXCEPT ![t] = 1]
    /\ kphase' = [kphase EXCEPT ![t] = "wait"]
    /\ UNCHANGED kheld
    /\ LockOthersSame

\* "with <lock>:" is entered: the lock is free
LockEnter(t) ==
    /\ kphase[t] = "wait"
    /\ kheld[AtLock(t)] = "none"
    /\ kheld' = [kheld EXCEPT ![AtLock(t)] = t]
    /\ kphase' = [kphase EXCEPT ![t] = "in"]
    /\ UNCHANGED <<kop, kstep>>
    /\ LockOthersSame

\* a thread that goes on to its next "with" while still inside this one
LockLeaveNested(t) ==
    /\ kphase[t] = "in"
    /\ IF kstep[t] < Len(LockProgram(kop[t]))
       THEN /\ kstep' = [kstep EXCEPT ![t] = kstep[t] + 1]
            /\ kphase' = [kphase EXCEPT ![t] = "wait"]
            /\ kheld' = IF LockProgram(kop[t])[kstep[t] + 1] = AtLock(t)
                        THEN [kheld EXCEPT ![AtLock(t)] = "none"]
                        ELSE kheld
            /\ UNCHANGED kop
       ELSE /\ kstep' = [kstep EXCEPT ![t] = 0]
            /\ kphase' = [kphase EXCEPT ![t] = "out"]
            /\ kop' = [kop EXCEPT ![t] = "idle"]
            /\ kheld' = [l \in LockNames |->
                            IF kheld[l] = t THEN "none" ELSE kheld[l]]
    /\ LockOthersSame

\* the "with" block is left: the lock is released, and the thread goes on to
\* the next "with" of the operation or finishes the operation
LockLeave(t) ==
    /\ kphase[t] = "in"
    /\ kheld' = [kheld EXCEPT ![AtLock(t)] = "none"]
    /\ IF kstep[t] < Len(LockProgram(kop[t]))
       THEN /\ kstep' = [kstep EXCEPT ![t] = kstep[t] + 1]
            /\ kphase' = [kphase EXCEPT ![t] = "wait"]
            /\ UNCHANGED kop
       ELSE /\ kstep' = [kstep EXCEPT ![t] = 0]
            /\ kphase' = [kphase EXCEPT ![t] = "out"]
            /\ kop' = [kop EXCEPT ![t] = "idle"]
    /\ LockOthersSame


(***************************************************************************)
(* _SafeOverlay: the wrapper the GUI calls the overlay through             *)
(***************************************************************************)
\* deltas the GUI hands to trigger through the wrapper
SafeDeltas == {1, 10}

SafeInit ==
    /\ ofailed = FALSE
    /\ owkAtFail = [w \in WorkerIds |-> "dead"]

\* _call: "if self._failed: return", else the overlay's method
SafeOnEnter(c) == ~ofailed /\ ApiOnEnter(c)
SafeOnExit(c) == ~ofailed /\ ApiOnExit(c)
SafeUpdateBase(c) == ~ofailed /\ ApiUpdateBase(c)
SafeTrigger(c, delta_cm) == ~ofailed /\ ApiTrigger(c, delta_cm)
SafeStop(c) == ~ofailed /\ ApiStop(c)

\* _call: the overlay's method raises; "except Exception as e: self._fail(e)"
\* sets _failed and returns None to the GUI
SafeCallRaises(c) ==
    /\ ~ofailed
    /\ opc[c] = "idle"
    /\ ofailed' = TRUE
    /\ owkAtFail' = owk
    /\ SafeOthersSame

Init ==
    /\ DispInit /\ LedInit /\ TouchInit /\ ApiInit /\ LoopInit
    /\ CalibInit /\ StoreInit /\ ReadInit /\ BrightInit /\ ProbInit
    /\ PeriodInit /\ TableInit /\ PaceInit /\ SentInit /\ GuideInit
    /\ LockInit /\ SafeInit

Next ==
    \/ \E t \in Threads : PAcquire(t)
    \/ \E t \in Threads : PWrite(t)
    \/ \E t \in Threads : SsCheck(t)
    \/ \E t \in Threads : OnExit(t)
    \/ \E t \in Threads : SsSwap(t)
    \/ \E t \in Threads : OnEnter(t)
    \/ \E t \in Threads : RdDraw(t)
    \/ WSnapshot
    \/ WCompose
    \/ WCall
    \/ InitDisplay
    \/ BootSplash
    \/ BootCalib
    \/ BootStart
    \/ TouchButton
    \/ TouchMiss
    \/ Fetch
    \/ FetchMetric
    \/ PdTransition

Spec == Init /\ [][Next]_vars

NextLED ==
    \/ RainbowFadeIn
    \/ RainbowSkipped
    \/ ClearWrite
    \/ \E now \in LedValues, prev \in LedValues : SetSnowValue(now, prev)
    \/ StartSparkle
    \/ StopSparkle
    \/ SparkleJoined
    \/ SparkleJoinTimeout
    \/ StopBreathe
    \/ BreatheJoined
    \/ BreatheJoinTimeout
    \/ StartBreathe
    \/ PaintSolid
    \/ PaintDone
    \/ \E b \in BreathIds : BreatheCheck(b)
    \/ \E s \in SparkleIds : SparkleCheck(s)
    \/ \E e \in EffectIds : EffectPaint(e)
    \/ \E e \in EffectIds : EffectPaintDone(e)
    \/ \E s \in SparkleIds : SparkleFlash(s)

SpecLED == Init /\ [][NextLED]_vars

\* the steps of the thread that calls set_snow_value and clear, once it is
\* inside a call; whether a further call comes is up to the caller
CallerStep ==
    \/ RainbowFadeIn
    \/ RainbowSkipped
    \/ ClearWrite
    \/ StartSparkle
    \/ StopSparkle
    \/ SparkleJoined
    \/ SparkleJoinTimeout
    \/ StopBreathe
    \/ BreatheJoined
    \/ BreatheJoinTimeout
    \/ StartBreathe
    \/ PaintSolid
    \/ PaintDone

\* the steps of one _breathe_loop or _sparkle_loop thread
EffectStep(e) ==
    \/ e \in BreathIds /\ BreatheCheck(e)
    \/ e \in SparkleIds /\ SparkleCheck(e)
    \/ EffectPaint(e)
    \/ EffectPaintDone(e)
    \/ e \in SparkleIds /\ SparkleFlash(e)

\* the LED effect controller under a fair scheduler: a call in progress goes
\* on, and a daemon thread that can run again and again does run (its sleeps
\* end, and _lock is handed to a thread that keeps asking for it)
SpecLEDFair ==
    /\ Init /\ [][NextLED]_vars
    /\ WF_vars(CallerStep)
    /\ \A e \in EffectIds : SF_vars(EffectStep(e))

\* the LED effect controller together with the shared dimmer
NextDim ==
    \/ RainbowFadeIn
    \/ RainbowSkipped
    \/ ClearWrite
    \/ \E now \in LedValues, prev \in LedValues : SetSnowValue(now, prev)
    \/ \E scale \in ScaleLevels : SetGlobalBrightness(scale)
    \/ StartSparkle
    \/ StopSparkle
    \/ SparkleJoined
    \/ SparkleJoinTimeout
    \/ StopBreathe
    \/ BreatheJoined
    \/ BreatheJoinTimeout
    \/ StartBreathe
    \/ PaintSolid
    \/ PaintDone
    \/ \E b \in BreathIds : BreatheCheck(b)
    \/ \E s \in SparkleIds : SparkleCheck(s)
    \/ \E e \in EffectIds : EffectPaint(e)
    \/ \E e \in EffectIds : EffectPaintDone(e)
    \/ \E s \in SparkleIds : SparkleFlash(s)

SpecDim == Init /\ [][NextDim]_vars

NextCalib ==
    \/ \E p \in Profiles : LoadSafe(p)
    \/ LoadSafeNoFile
    \/ \E x \in RawSamples, y \in RawSamples : MapRawToScreen(x, y)

SpecCalib == Init /\ [][NextCalib]_vars

NextStore ==
    \/ \E c \in FileContents : DiskHolds(c)
    \/ Load
    \/ FileLoadSafe
    \/ SaveSafe
    \/ SaveOpen
    \/ SaveOpenRaises
    \/ SaveWrite
    \/ SaveWriteRaises
    \/ Interrupted
    \/ RunTouchCalibration
    \/ \E p \in CalPoints : CalSample(p)
    \/ CalTimeout
    \/ CalFinalize

SpecStore == Init /\ [][NextStore]_vars

NextRead ==
    \/ ReadTouchCalled
    \/ NotPressed
    \/ \E p \in RawReadings : Read12(p)
    \/ ReadReturns

SpecRead == Init /\ [][NextRead]_vars

NextBright ==
    \/ \E c \in BootFiles : BrightnessStateInit(c)
    \/ StoreGlobalScale
    \/ Repaint
    \/ Cycle
    \/ WriteIndex
    \/ WriteIndexFails
    \/ ReloadMenu
    \/ PresentDims
    \/ \E now \in LedValues : BrightSnowValue(now)

SpecBright == Init /\ [][NextBright]_vars

NextProb == \E cm \in SparkleCms : SparkleIteration(cm)

SpecProb == Init /\ [][NextProb]_vars

NextTouch ==
    \/ OpenKeyboard
    \/ \E p \in TouchPoints : HandleTouch(p)
    \/ IterMiss
    \/ PressKey
    \/ PressToggleMode
    \/ PressToggleShift
    \/ MainBuild
    \/ PressSubmit
    \/ PressRaises
    \/ IterEnd
    \/ \E i \in TimerIds : TimerClear(i)
    \/ \E i \in TimerIds : TimerBuild(i)

SpecTouch == Init /\ [][NextTouch]_vars

NextOverlay ==
    \/ \E c \in Clients : ApiOnEnter(c)
    \/ \E c \in Clients : ApiOnExit(c)
    \/ \E c \in Clients : ApiUpdateBase(c)
    \/ \E c \in Clients, d \in TriggerDeltas : ApiTrigger(c, d)
    \/ \E c \in Clients : ApiStop(c)
    \/ \E c \in Clients : StartCheck(c)
    \/ \E c \in Clients : StartWorker(c)
    \/ \E c \in Clients : ApiShutdown(c)
    \/ \E c \in Clients : ShutdownJoined(c)
    \/ \E c \in Clients : ShutdownJoinTimeout(c)
    \/ \E w \in WorkerIds : WorkerTop(w)
    \/ \E w \in WorkerIds : WorkerPresent(w)
    \/ \E w \in WorkerIds : WorkerPresentRaises(w)
    \/ \E w \in WorkerIds : WorkerBackoff(w)

SpecOverlay == Init /\ [][NextOverlay]_vars

NextLoop ==
    \/ \E t \in BOOLEAN : LoopEnter(t)
    \/ LoopTop
    \/ \E c \in BOOLEAN : ReadTouch(c)
    \/ ReadTouchRaises
    \/ Dispatch
    \/ DispatchRaises
    \/ \E d \in BOOLEAN : Clock(d)
    \/ \E v \in SnowVals : Fetched(v)
    \/ FetchRaises
    \/ Redrawn
    \/ RedrawRaises
    \/ MetricUpdate
    \/ MetricRaises
    \/ Alarm
    \/ AlarmRaises
    \/ LoopSleep
    \/ Escapes
    \/ OuterCatch

\* the main thread is always scheduled again: every blocking call of the
\* iteration returns or raises
SpecLoop == Init /\ [][NextLoop]_vars /\ WF_vars(NextLoop)


NextPeriod == \E delta \in PeriodDeltas : BreathPeriodForDelta(delta)

SpecPeriod == Init /\ [][NextPeriod]_vars


NextTable == \E delta_cm \in TableDeltas : TriggerLookup(delta_cm)

SpecTable == Init /\ [][NextTable]_vars


NextPace == \E cpu_pct \in CpuPcts : LoopPace(cpu_pct)

SpecPace == Init /\ [][NextPace]_vars


NextSentinel ==
    \/ SentinelNotDue
    \/ \E rss \in RssLevels : SentinelCheck(rss)

SpecSentinel == Init /\ [][NextSentinel]_vars


NextGuide ==
    \/ \E p \in GuidePoints : FingerDown(p)
    \/ \E p \in GuidePoints : FingerSlides(p)
    \/ FingerUp
    \/ TargetSkipsNear
    \/ TargetAccepts
    \/ TargetTimesOut
    \/ ReleaseSeen
    \/ ReleaseReadRaises
    \/ ReleaseTimesOut

SpecGuide == Init /\ [][NextGuide]_vars


\* the overlay behind its wrapper: the GUI's calls, the continuation of a
\* call that is under way, and the worker
NextSafe ==
    \/ \E c \in Clients : SafeOnEnter(c)
    \/ \E c \in Clients : SafeOnExit(c)
    \/ \E c \in Clients : SafeUpdateBase(c)
    \/ \E c \in Clients, d \in SafeDeltas : SafeTrigger(c, d)
    \/ \E c \in Clients : SafeStop(c)
    \/ \E c \in Clients : SafeCallRaises(c)
    \/ \E c \in Clients : StartCheck(c)
    \/ \E c \in Clients : StartWorker(c)
    \/ \E w \in WorkerIds : WorkerTop(w)
    \/ \E w \in WorkerIds : WorkerPresent(w)
    \/ \E w \in WorkerIds : WorkerPresentRaises(w)
    \/ \E w \in WorkerIds : WorkerBackoff(w)

SpecSafe == Init /\ [][NextSafe]_vars


NextLocks ==
    \/ \E t \in LockUsers : \E op \in OpsOf(t) : LockBegin(t, op)
    \/ \E t \in LockUsers : LockEnter(t)
    \/ \E t \in LockUsers : LockLeave(t)

\* fair scheduling: a thread inside a block leaves it, and a thread whose
\* lock becomes free again and again gets it
SpecLocks ==
    /\ Init /\ [][NextLocks]_vars
    /\ \A t \in LockUsers : WF_vars(LockLeave(t))
    /\ \A t \in LockUsers : SF_vars(LockEnter(t))

(***************************************************************************)
(* Claims about the presenter, the screen state machine and the overlay    *)
(***************************************************************************)
InSection == {t \in Threads : pc[t] = "p_write"}

\* C1: present() is mutually exclusive -- at most one thread at a time is inside
\* the section that converts, dims and writes the frame, and the thread inside is
\* the holder of display_lock.
C1_PresentMutualExclusion ==
    /\ Cardinality(InSection) <= 1
    /\ \A t \in InSection : lockOwner = t

\* C1 witness: the worker is inside the section while the main thread and the
\* PowderDrive thread both wait at its entrance.
C1_Witness ==
    /\ pc["worker"] = "p_write"
    /\ pc["main"] = "p_acq"
    /\ pc["pd"] = "p_acq"

\* C2 (as claimed): every write to the physical display goes through present().
C2_AllWritesThroughPresent == lastWrite.via # "direct"

C7_NoPresentAfterExit == wcall # "exited"

\* C8 (as claimed): a frame built from an older base is never presented after
\* update_base returned.
C8_NeverPresentsOlderBase == ~lastWrite.stale

\* C9 (as claimed): every frame the worker presents is composited over a base
\* supplied by the SnowReportScreen.
C9_BaseFromReportOnly == lastWrite.ov => lastWrite.src = "Report"

(***************************************************************************)
(* Claims about the LED effect controller                                  *)
(***************************************************************************)
BreathingAlive == {b \in BreathIds : epc[b] # "dead"}

\* C4 (as claimed): at most one breathing routine paints the strip -- after any
\* sequence of set_snow_value calls there are never two breathing threads alive.
C4_AtMostOneBreathing == Cardinality(BreathingAlive) <= 1

\* C5 (as claimed): every write to the physical strip (pixels and show) is made
\* by a thread that holds the LED controller's lock.
C5_StripWritesUnderLock == stripOp.locked

SparkleAlive == {x \in SparkleIds : epc[x] # "dead"}

\* C15 (as claimed): once set_snow_value(now, prev) with now <= 0 has returned,
\* no breathing routine and no sparkle routine is active and no routine has
\* repainted the strip after the caller painted it black.
C15_OffStaysOff ==
    (lpc = "idle" /\ currentCm <= 0) =>
        /\ BreathingAlive = {}
        /\ SparkleAlive = {}
        /\ stripOp.by \notin EffectIds

\* C16 (as claimed): once set_snow_value(n, n) with n > 0 has returned, no
\* breathing routine is active and no breathing routine has painted over the
\* steady base color, whatever state preceded the call.
C16_SteadyAfterUnchanged ==
    (lpc = "idle" /\ currentCm > 0 /\ currentCm = prevCm) =>
        /\ breathThread = LNone
        /\ BreathingAlive = {}
        /\ stripOp.by \notin BreathIds

C10_AtMostOneCallback == Len(fired) <= 1

\* C11: a button callback that raises is caught at the dispatch boundary -- the
\* exception never leaves handle_touch, the step that handles it leaves the
\* current screen reference as it was and stays in the loop, so handle_touch
\* returns normally and later touches are dispatched.
C11_CallbackRaiseCaught ==
    /\ [](tpc # "crashed")
    /\ [][raised' = raised + 1 => (tcurrent' = tcurrent /\ tpc' = "iter")]_vars

\* C11 witness: after a callback raised in an earlier touch, a later touch is
\* in dispatch and has invoked a callback that did not raise.
C11_Witness ==
    everRaised /\ tpc = "iter" /\ raised = 0 /\ Len(fired) = 1

(***************************************************************************)
(* Claims about the overlay component                                      *)
(***************************************************************************)
WorkersAlive == {w \in WorkerIds : owk[w] # "dead"}

\* C12 (as claimed): under any sequence and interleaving of on_enter, trigger,
\* on_exit, stop and shutdown calls at most one overlay worker thread is alive.
C12_SingleWorker == Cardinality(WorkersAlive) <= 1

\* C13: a presenter call that raises inside the worker is swallowed -- the
\* worker does not end because of it: from the backoff sleep it goes on to the
\* top of its loop, and a worker leaves the presenter call only towards the
\* top of the loop or the backoff.
C13_PresentRaiseSwallowed ==
    [][\A w \in WorkerIds :
          /\ (owk[w] = "present" => owk'[w] \in {"present", "top", "backoff"})
          /\ (owk[w] = "backoff" => owk'[w] \in {"backoff", "top"})]_vars

\* C13 witness: after a presenter call raised, a worker is again inside a
\* presenter call.
C13_Witness == swallowed /\ \E w \in WorkerIds : owk[w] = "present"

\* C19: trigger(delta) clamps delta to 1..10, sets density and speed multiplier
\* to the entries of the two tables for the clamped delta, seeds exactly density
\* flakes and sets running; trigger(7) gives 130 and 1.40, delta <= 0 behaves as
\* 1 and delta > 10 as 10.
C19_TriggerTables ==
    lastOp.op = "trigger" =>
        LET d == lastOp.delta
            k == IF d < 1 THEN 1 ELSE IF d > 10 THEN 10 ELSE d
        IN /\ density = _DENSITY[k]
           /\ speedMul = _SPEED[k]
           /\ flakes = density
           /\ running
           /\ (d = 7 => density = 130 /\ speedMul = 140)
           /\ (d <= 0 => density = 20 /\ speedMul = 100)
           /\ (d > 10 => density = 165 /\ speedMul = 215)

\* C19 witness: trigger(7) has just run after a trigger with a larger table
\* entry had grown the flake pool.
C19_Witness ==
    lastOp = [op |-> "trigger", delta |-> 7] /\ density = 130 /\ flakes = 130
    /\ pool = 165 + POOL_PAD

(***************************************************************************)
(* Claims about the main loop                                              *)
(***************************************************************************)
\* C14: no error raised inside an iteration of the polling loop ends the loop:
\* the loop is never left, and after any failure the loop reaches the top of
\* its next iteration.
C14_LoopSurvivesErrors ==
    /\ [](mpc # "exited")
    /\ (failed ~> mpc = "top")

\* C14 witness: after an exception reached the handler around the iteration
\* and every inner handler has logged one, the loop is in a new iteration.
C14_Witness ==
    /\ logged = {"touch_read", "dispatch", "fetch", "redraw", "metric", "alarm",
                 "outer"}
    /\ mpc = "read"
    /\ ~failed

\* C18: once set_global_brightness(s) has returned, no write to the strip
\* carries a pixel channel above 255 * s.
C18_PaintsScaled ==
    stripOp.after => ~stripOp.over

\* s is clamp(size-1 - trunc(n/d)) for n = (raw-lo)*size and d = hi-lo > 0,
\* stated through the bounds that define the truncated quotient
AxisAsStated(raw, lo, hi, size, s) ==
    LET n == (raw - lo) * size
        d == hi - lo
        q == size - 1 - s
    IN  /\ s \in 0..(size - 1)
        /\ (0 < s /\ s < size - 1) => (q * d <= n /\ n < (q + 1) * d)
        /\ (s = 0) => n >= (size - 1) * d
        /\ (s = size - 1) => n < d

\* C20: for a profile with x_max > x_min and y_max > y_min and a raw sample in
\* [0,4095]^2, map_raw_to_screen returns the inverted, truncated, clamped
\* scaling of each axis, inside the panel; profile {300,3800,300,3700} maps
\* raw (300,300) to (319,239) on the 320x240 panel.
C20_MapRawToScreen ==
    (/\ rawPt # NoPoint
     /\ calib.x_max > calib.x_min
     /\ calib.y_max > calib.y_min
     /\ rawPt[1] \in 0..4095 /\ rawPt[2] \in 0..4095)
    => /\ AxisAsStated(rawPt[1], calib.x_min, calib.x_max, 320, mapped[1])
       /\ AxisAsStated(rawPt[2], calib.y_min, calib.y_max, 240, mapped[2])
       /\ (/\ calib = [x_min |-> 300, x_max |-> 3800, y_min |-> 300, y_max |-> 3700]
           /\ rawPt = <<300, 300>>)
          => mapped = <<319, 239>>

C20_Witness ==
    /\ calib = [x_min |-> 300, x_max |-> 3800, y_min |-> 300, y_max |-> 3700]
    /\ rawPt = <<300, 300>>
    /\ mapped = <<319, 239>>

\* two samples on one row, the first with the smaller raw x, mapped under a
\* valid profile
SameRowPair ==
    /\ prevRaw # NoPoint
    /\ calib.x_max > calib.x_min /\ calib.y_max > calib.y_min
    /\ prevRaw[2] = rawPt[2]
    /\ prevRaw[1] < rawPt[1]

C22_ProfileAlwaysValid ==
    (fpc = "idle" /\ fop \in {"load", "load_safe", "calibration"})
    => ~Degenerate(calib)

\* C23: for a valid profile, save_safe followed by load_safe yields the same
\* four field values and load_safe reports success.
C23_SaveLoadRoundTrip ==
    (fpc = "idle" /\ fop = "load_safe" /\ afterSave /\ ~Degenerate(calib0))
    => (calib = calib0 /\ fret = "true")

C23_Witness ==
    /\ fpc = "idle" /\ fop = "load_safe" /\ afterSave
    /\ calib0 = [x_min |-> 400, x_max |-> 3700, y_min |-> 500, y_max |-> 3600]
    /\ calib = calib0
    /\ fret = "true"

\* the file holds a complete profile: the one in force when the save began
\* (the old one) or the one being saved (the new one)
OldOrNew ==
    \/ cfile = cfile0
    \/ cfile = Encode(calib)

\* C24: if the write of a successful calibration is interrupted at any point,
\* the calibration file holds the complete old profile or the complete new
\* one, never a partial one.
C24_AtomicPersist ==
    (fpc = "down" /\ fop = "calibration") => OldOrNew

\* C25: when a target gets no accepted sample within its timeout,
\* run_touch_calibration returns False, the four fields are as before the
\* call and nothing was written to the calibration file.
C25_TimeoutFailsSoft ==
    (fop = "calibration" /\ timedOut)
    => (fret = "false" /\ calib = calib0 /\ cfile = cfile0)

C25_Witness ==
    /\ fop = "calibration" /\ timedOut /\ fpc = "idle"
    /\ calib0 = [x_min |-> 300, x_max |-> 3800, y_min |-> 300, y_max |-> 3700]
    /\ calib = calib0
    /\ cfile0 = Encode(calib0)
    /\ cfile = cfile0
    /\ fret = "false"

\* the readings of the finished call that lie strictly inside (100, 4000) on
\* both axes
Survivors ==
    {i \in 1..Len(raws) :
        /\ raws[i][1] > 100 /\ raws[i][1] < 4000
        /\ raws[i][2] > 100 /\ raws[i][2] < 4000}

Spread(axis) ==
    SetMax({raws[i][axis] : i \in Survivors}) - SetMin({raws[i][axis] : i \in Survivors})

\* floor of the mean of the survivors on one axis, stated by its bounds
IsMean(axis, m) ==
    LET n == Cardinality(Survivors)
        total == Sum([i \in 1..Len(raws) |->
                        IF i \in Survivors THEN raws[i][axis] ELSE 0])
    IN  m * n <= total /\ total < (m + 1) * n

\* C26: read_touch returns the integer mean of the surviving readings exactly
\* when at least 3 readings lie strictly inside (100, 4000) on both axes and
\* their spread is at most the tolerance on both axes, and no-touch otherwise;
\* (512,512), (515,510), (509,515), (3800,3800) with tolerance 50 give no-touch.
C26_ReadTouch ==
    (rpc = "idle" /\ Len(raws) = NumReadings)
    => /\ IF /\ Cardinality(Survivors) >= 3
             /\ Spread(1) <= 50
             /\ Spread(2) <= 50
          THEN rout # NoPoint /\ IsMean(1, rout[1]) /\ IsMean(2, rout[2])
          ELSE rout = NoPoint
       /\ raws = <<<<512, 512>>, <<515, 510>>, <<509, 515>>, <<3800, 3800>>>>
          => rout = NoPoint

C26_Witness ==
    /\ rpc = "idle"
    /\ raws = <<<<512, 512>>, <<515, 510>>, <<509, 515>>, <<3800, 3800>>>>
    /\ Len(readings) = 4
    /\ rout = NoPoint

Toggled == bpc = "ready" /\ toggles > 0

\* the index is inside the profile list and one past the earlier one, wrapping
\* from the last to the first; the dim transform and the LED controller use
\* the scale of that profile
ProfileApplied ==
    /\ bindex \in 0..1
    /\ bindex = IF bindex0 = 1 THEN 0 ELSE bindex0 + 1
    /\ bscale = (IF bindex = 0 THEN 100 ELSE 35)
    /\ dimUsed = bscale
    /\ globalScale = bscale

\* C27 as stated: after every brightness toggle the index is inside the
\* profile list, and the persisted index, the dim scale of present() and the
\* LED global scale all belong to that profile.
C27_AllFollowToggle == Toggled => (ProfileApplied /\ bfile = bindex)

\* C27 amended: after every brightness toggle the index is inside the profile
\* list and the dim scale of present() and the LED global scale belong to that
\* profile; the persisted index is that index when the write succeeded and is
\* left as it was when the write failed.
C27_FollowToggleUnlessWriteFails ==
    Toggled =>
        /\ ProfileApplied
        /\ persistOk => bfile = bindex
        /\ ~persistOk => bfile = bfile0

C27_Witness ==
    /\ Toggled /\ toggles = 2
    /\ bindex0 = 1 /\ bindex = 0
    /\ persistOk /\ bfile = 0
    /\ dimUsed = 100 /\ globalScale = 100

\* C28: while sparkle is active (raw metric above 20), a larger raw value
\* gives a strictly larger per-pixel sparkle probability.
C28_ProbabilityGrowsPastThreshold ==
    (spawnCm0 > 20 /\ spawnCm > spawnCm0) => spawnProb > spawnProb0

\* the step of set_global_brightness that assigns _global_scale
ScaleStored == lcall # "dim" /\ lcall' = "dim"
\* the step of set_global_brightness's _paint_solid
DimRepaint == lcall = "dim" /\ lpc = "paint" /\ lpc' = "painted"
\* set_global_brightness returns only after its _paint_solid, which took
\* _lock and wrote the base color at the stored scale, itself within [5, 100]
RepaintedBeforeReturn ==
    /\ ScaleStored => (globalScale' \in 5..100 /\ lpc' = "paint")
    /\ DimRepaint => /\ ledLock = LNone /\ ledLock' = LMain
                     /\ globalScale' = globalScale
                     /\ stripOp'.by = LMain /\ stripOp'.locked
                     /\ ~stripOp'.over
    /\ (lcall = "dim" /\ lcall' # "dim") => lpc = "painted"

\* C29: set_global_brightness(s) stores the clamped scale while holding the
\* lock that serializes strip writes, and has repainted the strip with the
\* base color at the new scale before it returns.
C29_StoredUnderLock ==
    [][(ScaleStored => ledLock' = LMain) /\ RepaintedBeforeReturn]_vars

\* C29 as the code has it: the clamped scale is stored without _lock being
\* taken (the caller never holds it at that step, an effect thread may), and
\* the repaint before the return is the part that runs under the lock.
C29_StoredUnlockedRepaintedLocked ==
    [][(ScaleStored => (ledLock # LMain /\ ledLock' = ledLock))
       /\ RepaintedBeforeReturn]_vars

\* the dimmer's repaint at scale 0.35 while a breathing thread is alive
C29_Witness ==
    /\ lcall = "dim" /\ lpc = "painted"
    /\ globalScale = 35
    /\ breathThread # LNone
    /\ baseColor # black
    /\ ledLock = LMain
    /\ stripOp = [by |-> LMain, locked |-> TRUE, over |-> FALSE, after |-> FALSE]

\* a live worker that _stop_breathe / _stop_sparkle asked to stop: the one
\* being joined, or one the bounded join gave up on (no longer referenced)
StopRequested(e) ==
    /\ epc[e] # "dead"
    /\ IF e \in BreathIds
       THEN breathThread # e \/ lpc = "join_breathe"
       ELSE sparkleThread # e \/ lpc = "join_sparkle"

\* C30: every breathing or sparkle worker whose stop was requested eventually
\* observes the flag and terminates under fair scheduling, also when a new
\* routine of the same kind is started right after the bounded join returned.
C30_StoppedWorkersTerminate ==
    \A e \in EffectIds : StopRequested(e) ~> (epc[e] = "dead")

(***************************************************************************)
(* Claims about the breathing period, the overlay's tables and frame rate  *)
(***************************************************************************)
\* C31: the breathing period is max(1.5, 8.0 - 0.73 * (clamp(delta, 1, 10) - 1))
\* seconds -- within [1.5, 8.0] for every delta, non-increasing in delta, 8.0
\* for delta 1 and 1.5 for every delta >= 10 (periods in hundredths).
C31_BreathPeriod ==
    (periodOf # NoPeriod) =>
        /\ periodOf.period >= 150 /\ periodOf.period <= 800
        /\ (periodOf.delta = 1 => periodOf.period = 800)
        /\ (periodOf.delta >= 10 => periodOf.period = 150)
        /\ (periodOf.delta \in 2..9 =>
               periodOf.period = 800 - 73 * (periodOf.delta - 1))
        /\ ((periodOf0 # NoPeriod /\ periodOf0.delta <= periodOf.delta) =>
               periodOf.period <= periodOf0.period)

\* C31 witness: the period of delta 10 after the period of delta 9
C31_Witness ==
    /\ periodOf0 = [delta |-> 9, period |-> 216]
    /\ periodOf = [delta |-> 10, period |-> 150]

\* C32: the density and the speed multiplier that trigger selects are
\* non-decreasing in delta over 1..10, from 20 flakes and 1.0 at delta 1 to
\* 165 flakes and 2.15 at delta 10 (speeds in hundredths).
C32_TablesMonotonic ==
    (tableOf # NoLookup /\ tableOf.delta_cm \in 1..10) =>
        /\ tableOf.density >= 20 /\ tableOf.density <= 165
        /\ tableOf.speed >= 100 /\ tableOf.speed <= 215
        /\ (tableOf.delta_cm = 1 => tableOf.density = 20 /\ tableOf.speed = 100)
        /\ (tableOf.delta_cm = 10 =>
               tableOf.density = 165 /\ tableOf.speed = 215)
        /\ ((tableOf0.delta_cm \in 1..10
             /\ tableOf0.delta_cm <= tableOf.delta_cm) =>
               /\ tableOf0.density <= tableOf.density
               /\ tableOf0.speed <= tableOf.speed)

\* C32 witness: trigger(5) after trigger(4)
C32_Witness ==
    /\ tableOf0 = [delta_cm |-> 4, density |-> 75, speed |-> 115]
    /\ tableOf = [delta_cm |-> 5, density |-> 95, speed |-> 122]

\* C33: per worker iteration the target frame rate is 12 fps (half the normal
\* rate, not below the floor of 10) when CPU utilization is above 80%, 26 fps
\* (boosted, not above 28) when it is below 40%, and the normal 24 fps
\* otherwise; it is always within [10, 28].
C33_TargetFps ==
    (paceOf # NoPace) =>
        /\ paceOf.target_fps =
              (IF paceOf.cpu_pct > 800 THEN 12
               ELSE IF paceOf.cpu_pct < 400 THEN 26 ELSE 24)
        /\ paceOf.target_fps >= 10 /\ paceOf.target_fps <= 28

\* C33 witness: an iteration at 80.1% after one at exactly 80%
C33_Witness ==
    /\ paceOf0 = [cpu_pct |-> 800, target_fps |-> 24]
    /\ paceOf = [cpu_pct |-> 801, target_fps |-> 12]

(***************************************************************************)
(* Claims about the overlay's memory sentinel                              *)
(***************************************************************************)
\* C34: a check that finds resident memory grown by more than the threshold
\* (170 MB against 100 MB, at 64 MB) recreates the buffers exactly once, and
\* the following check does not recreate them again unless memory has grown
\* by more than the threshold anew.
C34_RecreatedOnce ==
    chk.real =>
        /\ chk.recreated <=> (chk.rss - chk.base > 64)
        /\ chk.gen = chk.gen0 + (IF chk.recreated THEN 1 ELSE 0)
        /\ bufGen = chk.gen
        /\ (chk.recreated => lastRss = chk.rss)
        /\ ((chk.base = 100 /\ chk.rss = 170) => chk.recreated)
        /\ ((chk0.real /\ chk0.recreated /\ chk.rss - chk0.rss <= 64) =>
               /\ ~chk.recreated
               /\ chk.gen = chk0.gen)

\* C34 witness: 170 MB against 100 MB recreated the buffers, and the next
\* check at the same 170 MB left them alone
C34_Witness ==
    /\ chk0 = [real |-> TRUE, rss |-> 170, base |-> 100, recreated |-> TRUE,
               gen0 |-> 0, gen |-> 1]
    /\ chk = [real |-> TRUE, rss |-> 170, base |-> 170, recreated |-> FALSE,
              gen0 |-> 1, gen |-> 1]
    /\ bufGen = 1

\* C35: the sentinel compares resident memory with the snapshot of the
\* previous check, so a run of checks in which memory never grows by more
\* than the threshold from one check to the next never recreates the buffers.
C35_NoRecreateOnSlowGrowth ==
    (bufGen > 0) => jumped

(***************************************************************************)
(* Claims about the guided calibration's release detection                 *)
(***************************************************************************)
\* C36: guided calibration goes on to the next target only after a release
\* was detected (a no-touch reading after the accepted sample) -- it never
\* collects for the next target while the finger has been down without a
\* break since the previous accepted sample.
C36_AdvancesOnlyAfterRelease ==
    (gpc = "target" /\ gsamples # <<>>) => (releaseRead /\ ~contDown)

(***************************************************************************)
(* Claims about the main loop's metric refresh                             *)
(***************************************************************************)
\* C37: on a metric refresh after the first, a value that differs from the
\* stored previous one calls overlay.trigger(current - previous) when it
\* increased and overlay.stop() otherwise, then sets the LEDs with (current,
\* previous), and the stored previous value becomes current; an unchanged
\* value calls none of them.
C37_RefreshCalls ==
    (refresh.ok /\ refresh.prev # NoPrev) =>
        /\ prevSnow = refresh.cur
        /\ IF refresh.cur > refresh.prev
           THEN refresh.calls =
                   <<[op |-> "trigger", a |-> refresh.cur - refresh.prev, b |-> 0],
                     [op |-> "leds", a |-> refresh.cur, b |-> refresh.prev]>>
           ELSE IF refresh.cur < refresh.prev
           THEN refresh.calls =
                   <<[op |-> "stop", a |-> 0, b |-> 0],
                     [op |-> "leds", a |-> refresh.cur, b |-> refresh.prev]>>
           ELSE refresh.calls = <<>>

\* C37 witness: the value went from 3 to 8
C37_Witness ==
    /\ mpc = "alarm"
    /\ refresh = [ok |-> TRUE, prev |-> 3, cur |-> 8,
                  calls |-> <<[op |-> "trigger", a |-> 5, b |-> 0],
                              [op |-> "leds", a |-> 8, b |-> 3]>>]
    /\ prevSnow = 8

(***************************************************************************)
(* Claims about the locks and the overlay wrapper                          *)
(***************************************************************************)
\* the locks thread t is inside
LocksOf(t) == {l \in LockNames : kheld[l] = t}

\* C38: no thread ever waits for the display lock, the overlay lock or the
\* LED lock while it holds another of them, and under fair scheduling every
\* thread that waits for a lock gets it.
C38_NoHoldAndWait ==
    /\ [](\A t \in LockUsers :
             /\ (kphase[t] = "wait" => LocksOf(t) = {})
             /\ Cardinality(LocksOf(t)) <= 1)
    /\ \A t \in LockUsers : (kphase[t] = "wait") ~> (kphase[t] = "in")

\* C38 witness: the worker waits for the display lock, which the GUI thread
\* holds, while the effect thread is inside the LED lock; nobody holds the
\* overlay lock
C38_Witness ==
    /\ kop["worker"] = "loop_frame" /\ kstep["worker"] = 3
    /\ kphase["worker"] = "wait"
    /\ kheld = [l \in LockNames |->
                   CASE l = "display" -> "main"
                     [] l = "led" -> "effect"
                     [] OTHER -> "none"]

\* C39: once _SafeOverlay has disabled the overlay after an error in an
\* overlay call, the display receives no further frame from the overlay
\* worker -- no worker that was at the top of its loop at that moment goes on
\* to compose a frame and call present().
C39_NoFramesAfterDisable ==
    ofailed => \A w \in WorkerIds :
                  (owk[w] = "present" => owkAtFail[w] = "present")

====
